---------------------------- MODULE Spec2Model ----------------------------
(***************************************************************************)
(* A model of the MOTION micro-benchmark and test harnesses                *)
(* (src/micro_benchmarks/common/common_main.cpp, the circuit-file runner,  *)
(* the op.cpp circuits and test_abyn.cpp) together with the part of the    *)
(* protocol core they drive.                                               *)
(*                                                                         *)
(* The module holds several state machines, one per subsystem, each with   *)
(* its own variables and its own specification:                            *)
(*   SpecCfg   ParseProgramOptions / CreateParty (command line to party)   *)
(*             (SpecCfgMain: the same with main's catch clause)            *)
(*   SpecRun   the circuits of test_abyn.cpp run by n local parties        *)
(*   SpecMT    the multiplication-triple test                              *)
(*   SpecConv  a circuit that converts a share twice and reveals it        *)
(*   SpecCmp   the greater-than and less-than circuits                     *)
(*   SpecCtx   the construction of a communication Context                 *)
(*   SpecConn  the connection tests                                        *)
(*   SpecBe    the Backend's gates and wires during one circuit run        *)
(*             (SpecBeFair: the same under fair scheduling;                *)
(*             SpecBeDisconnect: the same with a peer that disconnects)    *)
(*   SpecCond  one wire's readiness flag, its setter and its waiters       *)
(*   SpecChan  the communication handlers of two connected parties         *)
(*   SpecTerm  the exchange of termination messages at Finish()            *)
(*   SpecOp    the circuits built from >, ==, |, ~ and Mux                 *)
(*   SpecBench main and EvaluateProtocol of the micro-benchmark            *)
(*   SpecLife  the calls a harness makes on each Party it creates          *)
(* Every action of one subsystem leaves the variables of the others alone. *)
(* Strings are sequences of one-character strings, so that the regular     *)
(* expression and the lexical casts act on characters as the code does.    *)
(***************************************************************************)
EXTENDS Integers, Sequences, FiniteSets, TLC

(***************************************************************************)
(* Bounds of the model                                                     *)
(***************************************************************************)
\* the longest --parties list the model enumerates
MaxPartyArguments == 3
\* the number of SIMD values of a "1K" input (1000 in the tests)
MaxSimd == 2
\* the number of wires of a multi-wire boolean share (64 in the tests)
MaxWires == 2
\* the bit length of a multiplication triple's field
MaxMTBits == 1
\* the bit length of the operands of a comparison circuit
MaxBitLen == 3
\* the number of messages the parties hand to SendMessage in one run
MaxSends == 3
\* the values of --num-paral run from 0 to MaxParal
MaxParal == 2
\* the values of --num-round run from 0 to MaxRound
MaxRound == 3

(***************************************************************************)
(* Subsystem Cfg: variables                                                *)
(***************************************************************************)
VARIABLES
  prog,                   \* which main: "common_main" or "part_003"
  user_options,           \* [my_id, parties]: the parsed command line
  pc,                     \* position of main
  party_index,            \* CreateParty: index of the party_string in the loop
  parties_configuration,  \* TcpPartiesConfiguration: id -> <<host, port>>
  thrown,                 \* the exception that left the current call, or "none"
  connections,            \* number of calls of TcpSetupHelper::SetupConnections
  party,                  \* whether encrypto::motion::Party was constructed
  peers_reachable,        \* whether every expected peer answers the handshake
  run_phase               \* the last phase party->Run() evaluated gates in

varsCfg == <<prog, user_options, pc, party_index, parties_configuration,
             thrown, connections, party, peers_reachable, run_phase>>

(***************************************************************************)
(* Subsystem Run: variables.  abyn_parties holds, per party id, the        *)
(* party's own state: no party reads another party's wires.                *)
(***************************************************************************)
VARIABLES
  test,          \* the test case: its name and the values it drew
  harness,       \* party id -> position of the test's task for that party
  gates,         \* party id -> the gates registered, in creation order
  wires,         \* party id -> gate -> the share on the gate's output wire
  received       \* party id -> the output messages that arrived at the party

varsRun == <<test, harness, gates, wires, received>>

VARIABLES mt_test, mt_harness, mt_provider, mt_transfers, mt_opened
varsMT == <<mt_test, mt_harness, mt_provider, mt_transfers, mt_opened>>

VARIABLES conv_test, conv_pc, conv_circuit, conv_shares, conv_output
varsConv == <<conv_test, conv_pc, conv_circuit, conv_shares, conv_output>>

VARIABLES cmp_test, cmp_pc, cmp_operands, cmp_stage, cmp_carry, cmp_output
varsCmp == <<cmp_test, cmp_pc, cmp_operands, cmp_stage, cmp_carry, cmp_output>>

VARIABLES ctx_arguments, ctx_pc
varsCtx == <<ctx_arguments, ctx_pc>>

VARIABLES conn_test, conn_pc, conn_contexts, all_connected, conn_done
varsConn == <<conn_test, conn_pc, conn_contexts, all_connected, conn_done>>

(***************************************************************************)
(* Subsystem Be: the Backend of every party during one circuit run         *)
(***************************************************************************)
VARIABLES
  be_test,        \* the circuit, the inputs and every party's configuration
  be_pc,          \* party id -> position of the party's harness
  gate_state,     \* party id -> gate -> Created .. OnlineDone
  setup_ready,    \* party id -> gate -> setup-ready flag of the gate's wire
  online_ready,   \* party id -> gate -> online-ready flag of the gate's wire
  wire_value,     \* party id -> gate -> value buffer of the gate's wire
  wire_log,       \* party id -> gate -> what was done to the wire, in order
  be_messages     \* the messages the parties sent each other

varsBe == <<be_test, be_pc, gate_state, setup_ready, online_ready, wire_value,
            wire_log, be_messages>>

(***************************************************************************)
(* Subsystem Cond: one wire's setup-ready flag, its condition, the thread  *)
(* that marks the wire ready and the threads that wait for it              *)
(***************************************************************************)
VARIABLES
  cond_waiters,   \* the threads that wait for the wire
  setup_ready_,   \* the wire's flag
  cond_mutex,     \* the thread that holds the condition's mutex, or "free"
  setter_pc,      \* position of the setter in SetSetupIsReady
  waiter_pc,      \* thread -> position of the thread in its wait
  cond_blocked,   \* the threads that have blocked on the condition so far
  cond_spurious   \* the threads that have woken without a notification

varsCond == <<cond_waiters, setup_ready_, cond_mutex, setter_pc, waiter_pc,
              cond_blocked, cond_spurious>>

(***************************************************************************)
(* Subsystem Chan: the communication handlers of two connected parties     *)
(***************************************************************************)
VARIABLES
  lqueue_send_,     \* <<a, b>> -> send queue of a's handler for peer b
  chan_stream,      \* <<a, b>> -> the bytes on their way from a to b
  chan_header,      \* <<a, b>> -> the size b's receiver parsed, if any
  lqueue_receive_,  \* <<a, b>> -> receive queue of b's handler for peer a
  chan_enqueued,    \* every message handed to SendMessage, in order
  chan_delivered    \* every message put in a receive queue, in order

varsChan == <<lqueue_send_, chan_stream, chan_header, lqueue_receive_,
              chan_enqueued, chan_delivered>>

(***************************************************************************)
(* Subsystem Term: the end of the connection between two parties           *)
(***************************************************************************)
VARIABLES
  term_pc,                        \* party -> running, terminating, ended
  term_send,                      \* party -> send queue of its handler
  term_stream,                    \* party -> messages on their way to the peer
  sent_termination_message_,      \* party -> flag of its handler
  received_termination_message_,  \* party -> flag of its handler
  continue_communication_,        \* party -> flag of its handler
  finish_order,                   \* the parties that called Finish(), in order
  term_data                       \* the parties that sent their last data message

varsTerm == <<term_pc, term_send, term_stream, sent_termination_message_,
              received_termination_message_, continue_communication_,
              finish_order, term_data>>

(***************************************************************************)
(* Subsystem Op: the circuits built from >, ==, |, ~ and Mux               *)
(***************************************************************************)
VARIABLES
  op_test,     \* the circuit, the number of parties and the inputs
  op_pc,       \* position of the harness
  op_circuit,  \* the circuit the harness built
  op_result,   \* the wires of the circuit's result, one sharing per wire
  op_output    \* the revealed outputs

varsOp == <<op_test, op_pc, op_circuit, op_result, op_output>>

(***************************************************************************)
(* Subsystem Bench: main and EvaluateProtocol of the micro-benchmark, run  *)
(* by the two parties of one computation                                   *)
(***************************************************************************)
VARIABLES
  bench_test,    \* the options the parties share: protocol and num-paral
  bench_pc,      \* party -> position in main
  party_input,   \* party -> std::vector<uint32_t> party_input(num_paral)
  bench_read,    \* party -> the indices at which main has read party_input
  in_owner,      \* party -> the owner ids passed to In(), in creation order
  output,        \* party -> EvaluateProtocol's vector output
  as_read,       \* party -> the entries of output read with As<>
  bench_thrown   \* party -> the exception that left main's try block

varsBench == <<bench_test, bench_pc, party_input, bench_read, in_owner, output,
               as_read, bench_thrown>>

(***************************************************************************)
(* Subsystem Life: the calls a harness makes on each Party it creates      *)
(***************************************************************************)
VARIABLES
  life_test,   \* the harness, its circuit, --num-round and --num-paral
  life_pc,     \* position of the harness
  life_round,  \* r of main's loop over the rounds
  life_step,   \* the next call of the round
  life_log     \* Party instance -> the calls made on it, in order

varsLife == <<life_test, life_pc, life_round, life_step, life_log>>

vars == <<varsCfg, varsRun, varsMT, varsConv, varsCmp, varsCtx, varsConn,
          varsBe, varsCond, varsChan, varsTerm, varsOp, varsBench, varsLife>>

(***************************************************************************)
(* Characters and strings                                                  *)
(***************************************************************************)
Digits == {"0", "1", "2", "3", "4", "5", "6", "7", "8", "9"}

DigitValue(c) ==
  CASE c = "0" -> 0 [] c = "1" -> 1 [] c = "2" -> 2 [] c = "3" -> 3
    [] c = "4" -> 4 [] c = "5" -> 5 [] c = "6" -> 6 [] c = "7" -> 7
    [] c = "8" -> 8 [] c = "9" -> 9

AllDigits(s) == \A k \in 1..Len(s) : s[k] \in Digits

RECURSIVE DecimalValue(_)
DecimalValue(s) ==
  IF s = <<>> THEN 0
  ELSE 10 * DecimalValue(SubSeq(s, 1, Len(s) - 1)) + DigitValue(s[Len(s)])

\* std::numeric_limits<std::uint16_t>::max()
UInt16Max == 65535

\* user_options.count("my-id") = 0
NotSet == -1
\* the value a throwing lexical_cast stands for
BadCast == -1
\* user_options.count("parties") = 0
NoParties == <<>>
\* a failed regex_match: every sub-match is empty
NoMatch == [matched |-> FALSE, id |-> <<>>, host |-> <<>>, port |-> <<>>]

(***************************************************************************)
(* kPartyArgumentRegex = "([012]),([^,]+),(\\d{1,5})" under regex_match:   *)
(* the whole string must match.  The host holds no comma, so the comma     *)
(* that ends it is the first one after the id's comma.                     *)
(***************************************************************************)
SecondComma(s) ==
  IF \E k \in 3..Len(s) : s[k] = ","
  THEN CHOOSE k \in 3..Len(s) : s[k] = "," /\ \A j \in 3..(k - 1) : s[j] # ","
  ELSE 0

RegexMatch(s) ==
  LET k == SecondComma(s) IN
  IF /\ Len(s) >= 5
     /\ s[1] \in {"0", "1", "2"}
     /\ s[2] = ","
     /\ k >= 4
     /\ Len(s) - k \in 1..5
     /\ AllDigits(SubSeq(s, k + 1, Len(s)))
  THEN [matched |-> TRUE, id |-> <<s[1]>>, host |-> SubSeq(s, 3, k - 1),
        port |-> SubSeq(s, k + 1, Len(s))]
  ELSE NoMatch

CheckPartyArgumentSyntax(party_argument) == RegexMatch(party_argument).matched

\* boost::lexical_cast<std::size_t>: the decimal value, or bad_lexical_cast
LexicalCastSizeT(s) ==
  IF s # <<>> /\ AllDigits(s) THEN DecimalValue(s) ELSE BadCast

\* a port conversion that wraps instead of throwing (what a static_cast of a
\* wider integer does)
LexicalCastUInt16Wrapping(s) ==
  IF s # <<>> /\ AllDigits(s) THEN DecimalValue(s) % (UInt16Max + 1) ELSE BadCast

\* boost::lexical_cast<std::uint16_t>: throws when the value does not fit
LexicalCastUInt16(s) ==
  IF s # <<>> /\ AllDigits(s) /\ DecimalValue(s) <= UInt16Max
  THEN DecimalValue(s) ELSE BadCast

\* ParsePartyArgument: {id, host, port}; threw when a cast throws.  An argument
\* the regex does not match leaves every sub-match empty, and the casts throw.
ParsePartyArgument(party_argument) ==
  LET match == RegexMatch(party_argument)
      id == LexicalCastSizeT(match.id)
      port == LexicalCastUInt16(match.port)
  IN [threw |-> (id = BadCast \/ port = BadCast), id |-> id, host |-> match.host, port |-> port]

(***************************************************************************)
(* The command lines the model enumerates                                  *)
(***************************************************************************)
PartyArguments ==
  { <<"0", ",", "h", ",", "7">>,                      \* 0,h,7
    <<"1", ",", "h", ",", "8">>,                      \* 1,h,8
    <<"2", ",", "h", ",", "9">>,                      \* 2,h,9
    <<"9", ",", "h", ",", "7">>,                      \* 9,h,7      id outside [012]
    <<"0", ",", ",", "7">>,                           \* 0,,7       empty host
    <<"0", ",", "h", ",", "g", ",", "7">>,            \* 0,h,g,7    comma in the host
    <<"1", ",", "h", ",", "x">>,                      \* 1,h,x      port is no number
    <<"1", ",", "h", ",">>,                           \* 1,h,       empty port
    <<"1", ",", "h", ",", "6", "5", "5", "3", "5">>,  \* 1,h,65535  the largest port
    <<"1", ",", "h", ",", "6", "5", "5", "3", "6">>,  \* 1,h,65536  one past it
    <<"0", ",", "h", ",", "1", "0", "0", "0", "0", "0">> } \* 0,h,100000 six digits

MyIds == 0..3

PartiesLists ==
  UNION { [1..n -> PartyArguments] : n \in 1..MaxPartyArguments }

Programs == {"common_main", "part_003"}

(***************************************************************************)
(* The other subsystems at rest                                            *)
(***************************************************************************)
IdleRun ==
  /\ test = [name |-> "none"]
  /\ harness = <<>>
  /\ gates = <<>>
  /\ wires = <<>>
  /\ received = <<>>

(***************************************************************************)
(* Subsystem Cfg: initial state and actions                                *)
(***************************************************************************)
IdleMT ==
  /\ mt_test = [name |-> "none"]
  /\ mt_harness = <<>>
  /\ mt_provider = <<>>
  /\ mt_transfers = {}
  /\ mt_opened = {}

IdleConv ==
  /\ conv_test = [program |-> "none"]
  /\ conv_pc = "none"
  /\ conv_circuit = <<>>
  /\ conv_shares = <<>>
  /\ conv_output = -1

IdleCmp ==
  /\ cmp_test = [circuit |-> "none"]
  /\ cmp_pc = "none"
  /\ cmp_operands = <<>>
  /\ cmp_stage = 0
  /\ cmp_carry = <<>>
  /\ cmp_output = -1

IdleCtx ==
  /\ ctx_arguments = [ip |-> <<>>]
  /\ ctx_pc = "none"

IdleConn ==
  /\ conn_test = [name |-> "none"]
  /\ conn_pc = <<>>
  /\ conn_contexts = <<>>
  /\ all_connected = "false"
  /\ conn_done = FALSE

IdleBe ==
  /\ be_test = [circuit |-> "none"]
  /\ be_pc = <<>>
  /\ gate_state = <<>>
  /\ setup_ready = <<>>
  /\ online_ready = <<>>
  /\ wire_value = <<>>
  /\ wire_log = <<>>
  /\ be_messages = {}

IdleCond ==
  /\ cond_waiters = {}
  /\ setup_ready_ = FALSE
  /\ cond_mutex = "free"
  /\ setter_pc = 0
  /\ waiter_pc = <<>>
  /\ cond_blocked = {}
  /\ cond_spurious = {}

IdleChan ==
  /\ lqueue_send_ = <<>>
  /\ chan_stream = <<>>
  /\ chan_header = <<>>
  /\ lqueue_receive_ = <<>>
  /\ chan_enqueued = <<>>
  /\ chan_delivered = <<>>

IdleTerm ==
  /\ term_pc = <<>>
  /\ term_send = <<>>
  /\ term_stream = <<>>
  /\ sent_termination_message_ = <<>>
  /\ received_termination_message_ = <<>>
  /\ continue_communication_ = <<>>
  /\ finish_order = <<>>
  /\ term_data = {}

IdleOp ==
  /\ op_test = [circuit |-> "none"]
  /\ op_pc = "none"
  /\ op_circuit = <<>>
  /\ op_result = <<>>
  /\ op_output = <<>>

IdleBench ==
  /\ bench_test = [protocol |-> "none"]
  /\ bench_pc = <<>>
  /\ party_input = <<>>
  /\ bench_read = <<>>
  /\ in_owner = <<>>
  /\ output = <<>>
  /\ as_read = <<>>
  /\ bench_thrown = <<>>

IdleLife ==
  /\ life_test = [program |-> "none"]
  /\ life_pc = "none"
  /\ life_round = 0
  /\ life_step = 0
  /\ life_log = <<>>

othersCfg == <<varsRun, varsMT, varsConv, varsCmp, varsCtx, varsConn, varsBe,
               varsCond, varsChan, varsTerm, varsOp, varsBench, varsLife>>
othersRun == <<varsCfg, varsMT, varsConv, varsCmp, varsCtx, varsConn, varsBe,
               varsCond, varsChan, varsTerm, varsOp, varsBench, varsLife>>
othersMT == <<varsCfg, varsRun, varsConv, varsCmp, varsCtx, varsConn, varsBe,
              varsCond, varsChan, varsTerm, varsOp, varsBench, varsLife>>
othersConv == <<varsCfg, varsRun, varsMT, varsCmp, varsCtx, varsConn, varsBe,
                varsCond, varsChan, varsTerm, varsOp, varsBench, varsLife>>
othersCmp == <<varsCfg, varsRun, varsMT, varsConv, varsCtx, varsConn, varsBe,
               varsCond, varsChan, varsTerm, varsOp, varsBench, varsLife>>
othersCtx == <<varsCfg, varsRun, varsMT, varsConv, varsCmp, varsConn, varsBe,
               varsCond, varsChan, varsTerm, varsOp, varsBench, varsLife>>
othersConn == <<varsCfg, varsRun, varsMT, varsConv, varsCmp, varsCtx, varsBe,
                varsCond, varsChan, varsTerm, varsOp, varsBench, varsLife>>
othersBe == <<varsCfg, varsRun, varsMT, varsConv, varsCmp, varsCtx, varsConn,
              varsCond, varsChan, varsTerm, varsOp, varsBench, varsLife>>
othersCond == <<varsCfg, varsRun, varsMT, varsConv, varsCmp, varsCtx,
                varsConn, varsBe, varsChan, varsTerm, varsOp, varsBench,
                varsLife>>
othersChan == <<varsCfg, varsRun, varsMT, varsConv, varsCmp, varsCtx,
                varsConn, varsBe, varsCond, varsTerm, varsOp, varsBench,
                varsLife>>
othersTerm == <<varsCfg, varsRun, varsMT, varsConv, varsCmp, varsCtx,
                varsConn, varsBe, varsCond, varsChan, varsOp, varsBench,
                varsLife>>
othersOp == <<varsCfg, varsRun, varsMT, varsConv, varsCmp, varsCtx, varsConn,
              varsBe, varsCond, varsChan, varsTerm, varsBench, varsLife>>
othersBench == <<varsCfg, varsRun, varsMT, varsConv, varsCmp, varsCtx,
                 varsConn, varsBe, varsCond, varsChan, varsTerm, varsOp,
                 varsLife>>
othersLife == <<varsCfg, varsRun, varsMT, varsConv, varsCmp, varsCtx,
                varsConn, varsBe, varsCond, varsChan, varsTerm, varsOp,
                varsBench>>

IdleCfg ==
  /\ prog = "common_main"
  /\ user_options = [my_id |-> NotSet, parties |-> NoParties]
  /\ pc = "idle"
  /\ party_index = 0
  /\ parties_configuration = <<>>
  /\ thrown = "none"
  /\ connections = 0
  /\ party = FALSE
  /\ peers_reachable = TRUE
  /\ run_phase = "none"

InitCfg ==
  /\ IdleLife
  /\ IdleBench
  /\ IdleOp
  /\ IdleTerm
  /\ IdleChan
  /\ IdleCond
  /\ IdleBe
  /\ IdleRun
  /\ IdleMT
  /\ IdleConv
  /\ IdleCmp
  /\ IdleCtx
  /\ IdleConn
  /\ prog \in Programs
  /\ user_options \in
       [my_id : MyIds \cup {NotSet}, parties : PartiesLists \cup {NoParties}]
  /\ pc = "ParseProgramOptions"
  /\ party_index = 0
  /\ parties_configuration = <<>>
  /\ thrown = "none"
  /\ connections = 0
  /\ party = FALSE
  /\ peers_reachable \in BOOLEAN
  /\ run_phase = "none"

\* the number of entries of --parties ParseProgramOptions accepts
PartiesCountAccepted(p, n) ==
  IF p = "common_main" THEN n = 2 ELSE n >= 2

\* ParseProgramOptions, from the check of my-id (role) to its return
ParseProgramOptions ==
  /\ pc = "ParseProgramOptions"
  /\ LET other_parties == user_options.parties IN
     IF \/ user_options.my_id = NotSet
        \/ other_parties = NoParties
        \/ ~PartiesCountAccepted(prog, Len(other_parties))
        \/ \E k \in 1..Len(other_parties) : ~CheckPartyArgumentSyntax(other_parties[k])
     THEN /\ thrown' = "runtime_error"
          /\ pc' = "catch"
     ELSE /\ thrown' = thrown
          /\ pc' = "CreateParty"
  /\ UNCHANGED <<prog, user_options, party_index, parties_configuration,
                 connections, party, peers_reachable, run_phase>>
  /\ UNCHANGED othersCfg

\* a first check that lets my_id = number_of_parties through
MyIdInRangeOffByOne(my_id, number_of_parties) == my_id <= number_of_parties

\* CreateParty: if (my_id >= number_of_parties) throw
MyIdInRange(my_id, number_of_parties) == my_id < number_of_parties

\* CreateParty up to the construction of parties_configuration
CreatePartyBegin ==
  /\ pc = "CreateParty"
  /\ LET number_of_parties == Len(user_options.parties) IN
     IF ~MyIdInRange(user_options.my_id, number_of_parties)
     THEN /\ thrown' = "runtime_error"
          /\ pc' = "catch"
          /\ UNCHANGED <<party_index, parties_configuration>>
     ELSE /\ parties_configuration' = [k \in 0..(number_of_parties - 1) |-> <<>>]
          /\ party_index' = 1
          /\ pc' = "CreatePartyLoop"
          /\ thrown' = thrown
  /\ UNCHANGED <<prog, user_options, connections, party, peers_reachable, run_phase>>
  /\ UNCHANGED othersCfg

\* one iteration of: for (const auto& party_string : parties_string)
CreatePartyLoop ==
  /\ pc = "CreatePartyLoop"
  /\ LET parties_string == user_options.parties
         number_of_parties == Len(parties_string)
     IN
     IF party_index > number_of_parties
     THEN /\ pc' = "SetupConnections"
          /\ UNCHANGED <<party_index, parties_configuration, thrown>>
     ELSE LET parsed == ParsePartyArgument(parties_string[party_index]) IN
          IF parsed.threw
          THEN /\ thrown' = "bad_lexical_cast"
               /\ pc' = "catch"
               /\ UNCHANGED <<party_index, parties_configuration>>
          ELSE IF parsed.id >= number_of_parties
          THEN /\ thrown' = "runtime_error"
               /\ pc' = "catch"
               /\ UNCHANGED <<party_index, parties_configuration>>
          ELSE /\ parties_configuration' =
                    [parties_configuration EXCEPT ![parsed.id] = <<parsed.host, parsed.port>>]
               /\ party_index' = party_index + 1
               /\ UNCHANGED <<pc, thrown>>
  /\ UNCHANGED <<prog, user_options, connections, party, peers_reachable, run_phase>>
  /\ UNCHANGED othersCfg

\* TcpSetupHelper::SetupConnections: the handshake with every configured peer
\* fails when an expected peer is unreachable
SetupConnectionsFails == ~peers_reachable

\* a CreateParty that goes on to construct the Party whatever the handshakes did
AfterSetupConnectionsIgnoringFailure(failed) == "Party"

\* CreateParty has no handler around helper.SetupConnections(): a failure
\* leaves CreateParty, and main, by the exception
AfterSetupConnections(failed) == IF failed THEN "catch" ELSE "Party"

\* TcpSetupHelper helper(my_id, parties_configuration); helper.SetupConnections()
SetupConnections ==
  /\ pc = "SetupConnections"
  /\ connections' = connections + 1
  /\ pc' = AfterSetupConnections(SetupConnectionsFails)
  /\ thrown' = IF SetupConnectionsFails THEN "connection_error" ELSE thrown
  /\ UNCHANGED <<prog, user_options, party_index, parties_configuration, party,
                 peers_reachable, run_phase>>
  /\ UNCHANGED othersCfg

\* std::make_unique<encrypto::motion::Party>(std::move(communication_layer))
ConstructParty ==
  /\ pc = "Party"
  /\ party' = TRUE
  /\ pc' = "EvaluateProtocol"
  /\ UNCHANGED <<prog, user_options, party_index, parties_configuration, thrown,
                 connections, peers_reachable, run_phase>>
  /\ UNCHANGED othersCfg

\* EvaluateProtocol / EvaluateCircuit: the circuit is built and party->Run()
\* evaluates the setup phase of its gates
RunSetupPhase ==
  /\ pc = "EvaluateProtocol"
  /\ party
  /\ run_phase' = "setup"
  /\ pc' = "Run"
  /\ UNCHANGED <<prog, user_options, party_index, parties_configuration, thrown,
                 connections, party, peers_reachable>>
  /\ UNCHANGED othersCfg

\* party->Run() evaluates the online phase of the gates and returns
RunOnlinePhase ==
  /\ pc = "Run"
  /\ run_phase' = "online"
  /\ pc' = "Finish"
  /\ UNCHANGED <<prog, user_options, party_index, parties_configuration, thrown,
                 connections, party, peers_reachable>>
  /\ UNCHANGED othersCfg

NextCfg ==
  \/ ParseProgramOptions
  \/ CreatePartyBegin
  \/ CreatePartyLoop
  \/ SetupConnections
  \/ ConstructParty
  \/ RunSetupPhase
  \/ RunOnlinePhase

SpecCfg == InitCfg /\ [][NextCfg]_vars

(***************************************************************************)
(* Subsystem Run.  A share is a sequence of wires and a wire a sequence of *)
(* SIMD values: an arithmetic share has one wire of values modulo 2^T, a   *)
(* boolean share has wires of bits.                                        *)
(***************************************************************************)
\* num_parties_list = {2u, 3u, 4u, 5u, 10u}: its first two entries
num_parties_list == {2, 3}

\* template_test(std::uint8_t), template_test(std::uint16_t)
BitWidths == {8, 16}

Modulus(t) == IF t.protocol = "BooleanGMW" THEN 2 ELSE 2 ^ t.T

Parties(t) == 0..(t.num_parties - 1)

\* the dummy input: 0, _zero_v_1K, dummy_input_1K, dummy_input_200_64_bit
Dummy(t) == [w \in 1..t.wires |-> [k \in 1..t.simd |-> 0]]

\* the inputs a test draws: every value the largest of its type, or values
\* that differ from party to party, wire to wire and SIMD value to SIMD value
Patterns == {"max", "ramp"}

Drawn(t, j) ==
  [w \in 1..t.wires |->
     [k \in 1..t.simd |->
        IF t.global_input = "max" THEN Modulus(t) - 1 ELSE (j + w + k) % Modulus(t)]]

\* the seeds of the randomness two parties share
Seeds == {1, 200}

TestShapes ==
  [protocol : {"ArithmeticGMW"}, T : BitWidths, wires : {1}, simd : {1, MaxSimd}]
    \cup
  [protocol : {"BooleanGMW"}, T : {1}, wires : {1, MaxWires}, simd : {1, MaxSimd}]

TestNames(shape) ==
  IF shape.protocol = "ArithmeticGMW" THEN {"InputOutput", "Addition"}
  ELSE IF shape.wires = 1 THEN {"InputOutput", "XOR"} ELSE {"XOR"}

\* the party ids, and the creation indices of the gates, of the largest test
PartyIds == 0..2

GateIds == 1..6

\* one test case: what the test draws before it starts the parties
Tests ==
  { [name |-> nm, protocol |-> sh.protocol, T |-> sh.T, wires |-> sh.wires,
     simd |-> sh.simd, num_parties |-> n, input_owner |-> io, output_owner |-> oo,
     global_input |-> gi, seed |-> sd] :
      nm \in {"InputOutput", "Addition", "XOR"}, sh \in TestShapes,
      n \in num_parties_list, io \in PartyIds, oo \in PartyIds,
      gi \in Patterns, sd \in Seeds }

\* the draws of one test: owners among the parties; only an InputOutput test
\* draws an input owner; only arithmetic input gates use randomness
TestDrawn(t) ==
  /\ t.name \in TestNames([protocol |-> t.protocol, T |-> t.T, wires |-> t.wires, simd |-> t.simd])
  /\ t.input_owner < t.num_parties
  /\ t.output_owner < t.num_parties
  /\ t.name # "InputOutput" => t.input_owner = 0
  /\ t.protocol = "BooleanGMW" => t.seed = 1

GlobalInput(t, j) == Drawn(t, j)

(***************************************************************************)
(* The circuits the tests build.  A gate names its type, the gates whose   *)
(* output wires it reads (its parents, by creation index), the party that  *)
(* owns it (input and output gates) and the value passed to IN.            *)
(***************************************************************************)
Gate(type, parents, owner, input) ==
  [type |-> type, parents |-> parents, owner |-> owner, input |-> input]

\* an input selection that hands the real input to the output owner
MyInputOfOutputOwner(t, party_id) ==
  IF party_id = t.output_owner THEN GlobalInput(t, t.input_owner) ELSE Dummy(t)

\* InputOutput: input_1 = 0; if (party_id == input_owner) input_1 = global_input_1
MyInput(t, party_id) ==
  IF party_id = t.input_owner THEN GlobalInput(t, t.input_owner) ELSE Dummy(t)

\* InputOutput: s_in = IN(input, input_owner); s_out = s_in.Out(output_owner)
BuildInputOutput(t, party_id) ==
  << Gate("In", <<>>, t.input_owner, MyInput(t, party_id)),
     Gate("Out", <<1>>, t.output_owner, <<>>) >>

\* Addition, XOR: for every j, IN(party_id == j ? input of j : dummy, j)
BuildInputs(t, party_id) ==
  [g \in 1..t.num_parties |->
     Gate("In", <<>>, g - 1,
          IF party_id = g - 1 THEN GlobalInput(t, g - 1) ELSE Dummy(t))]

\* s = s_in.at(0) op s_in.at(1); for (j = 2; j < num_parties; ++j) s = s op s_in.at(j)
BuildChain(t, type) ==
  [i \in 1..(t.num_parties - 1) |->
     Gate(type, IF i = 1 THEN <<1, 2>> ELSE <<t.num_parties + i - 1, i + 1>>, 0, <<>>)]

\* a XOR chain that ends one input early
BuildXorChainShort(t) ==
  [i \in 1..(t.num_parties - 1) |->
     Gate("Xor", IF i = 1 THEN <<1, 2>> ELSE <<t.num_parties + i - 1, i>>, 0, <<>>)]

\* an addition chain whose first gate reads s_in.at(0) twice
BuildAdditionChainFirstTwice(t) ==
  [i \in 1..(t.num_parties - 1) |->
     Gate("Add", IF i = 1 THEN <<1, 1>> ELSE <<t.num_parties + i - 1, i + 1>>, 0, <<>>)]

BuildAdditionChain(t) == BuildChain(t, "Add")

BuildXorChain(t) == BuildChain(t, "Xor")

BuildAddition(t, party_id) ==
  BuildInputs(t, party_id) \o BuildAdditionChain(t)
    \o << Gate("Out", <<2 * t.num_parties - 1>>, t.output_owner, <<>>) >>

BuildXor(t, party_id) ==
  BuildInputs(t, party_id) \o BuildXorChain(t)
    \o << Gate("Out", <<2 * t.num_parties - 1>>, t.output_owner, <<>>) >>

BuildCircuit(t, party_id) ==
  CASE t.name = "InputOutput" -> BuildInputOutput(t, party_id)
    [] t.name = "Addition" -> BuildAddition(t, party_id)
    [] t.name = "XOR" -> BuildXor(t, party_id)

(***************************************************************************)
(* The protocol core, from the specification: input gates, the local       *)
(* linear gates, the output gate.                                          *)
(***************************************************************************)
NotReady == <<>>

\* addition of two shares, value by value, modulo 2^T (XOR for bits)
ShareAdd(t, a, b) ==
  [w \in 1..t.wires |-> [k \in 1..t.simd |-> (a[w][k] + b[w][k]) % Modulus(t)]]

ShareSub(t, a, b) ==
  [w \in 1..t.wires |->
     [k \in 1..t.simd |-> (a[w][k] + Modulus(t) - b[w][k]) % Modulus(t)]]

RECURSIVE ShareSum(_, _, _)
ShareSum(t, f, S) ==
  IF S = {} THEN Dummy(t)
  ELSE LET x == CHOOSE x \in S : TRUE IN ShareAdd(t, f[x], ShareSum(t, f, S \ {x}))

\* the mask the input owner and party j both derive from their shared seed
Mask(t, g, owner, j) ==
  [w \in 1..t.wires |->
     [k \in 1..t.simd |-> (t.seed + 31 * owner + 17 * j + 7 * g + 3 * k) % Modulus(t)]]

\* the share of input gate g at party_id.  Arithmetic: the other parties hold
\* their masks and the owner its value minus all the masks.  Boolean: the
\* other parties hold zero.  The value a party that is not the owner passed
\* to IN is not read.
InputShare(t, g, gate, party_id) ==
  LET others == Parties(t) \ {gate.owner}
      masks == [j \in others |-> Mask(t, g, gate.owner, j)]
  IN IF t.protocol = "ArithmeticGMW"
     THEN IF party_id = gate.owner
          THEN ShareSub(t, gate.input, ShareSum(t, masks, others))
          ELSE masks[party_id]
     ELSE IF party_id = gate.owner THEN gate.input ELSE Dummy(t)

Ready(p, g) == wires[p][g] # NotReady

ParentsReady(p, g) == \A i \in 1..Len(gates[p][g].parents) : Ready(p, gates[p][g].parents[i])

Pending(p, g) ==
  /\ p \in Parties(test)
  /\ harness[p] = "Run"
  /\ g \in 1..Len(gates[p])
  /\ ~Ready(p, g)
  /\ ParentsReady(p, g)

(***************************************************************************)
(* Subsystem Run: initial state and actions                                *)
(***************************************************************************)
InitRun ==
  /\ IdleLife
  /\ IdleBench
  /\ IdleOp
  /\ IdleTerm
  /\ IdleChan
  /\ IdleCond
  /\ IdleBe
  /\ IdleCfg
  /\ IdleMT
  /\ IdleConv
  /\ IdleCmp
  /\ IdleCtx
  /\ IdleConn
  /\ test \in {t \in Tests : TestDrawn(t)}
  /\ harness = [p \in Parties(test) |-> "build"]
  /\ gates = [p \in Parties(test) |-> <<>>]
  /\ wires = [p \in Parties(test) |-> <<>>]
  /\ received = [p \in Parties(test) |-> {}]

\* the task of party_id builds its circuit and calls Run
Build(party_id) ==
  /\ party_id \in Parties(test)
  /\ harness[party_id] = "build"
  /\ gates' = [gates EXCEPT ![party_id] = BuildCircuit(test, party_id)]
  /\ wires' = [wires EXCEPT ![party_id] = [g \in 1..Len(gates'[party_id]) |-> NotReady]]
  /\ harness' = [harness EXCEPT ![party_id] = "Run"]
  /\ UNCHANGED <<test, received>>
  /\ UNCHANGED othersRun

EvaluateInputGate(p, g) ==
  /\ Pending(p, g)
  /\ gates[p][g].type = "In"
  /\ wires' = [wires EXCEPT ![p][g] = InputShare(test, g, gates[p][g], p)]
  /\ UNCHANGED <<test, harness, gates, received>>
  /\ UNCHANGED othersRun

EvaluateAdditionGate(p, g) ==
  /\ Pending(p, g)
  /\ gates[p][g].type = "Add"
  /\ wires' = [wires EXCEPT ![p][g] =
       ShareAdd(test, wires[p][gates[p][g].parents[1]], wires[p][gates[p][g].parents[2]])]
  /\ UNCHANGED <<test, harness, gates, received>>
  /\ UNCHANGED othersRun

EvaluateXorGate(p, g) ==
  /\ Pending(p, g)
  /\ gates[p][g].type = "Xor"
  /\ wires' = [wires EXCEPT ![p][g] =
       ShareAdd(test, wires[p][gates[p][g].parents[1]], wires[p][gates[p][g].parents[2]])]
  /\ UNCHANGED <<test, harness, gates, received>>
  /\ UNCHANGED othersRun

\* the output gate at a party that is not the output owner: it sends its share
\* to the owner and keeps no result
EvaluateOutputGateSend(p, g) ==
  /\ Pending(p, g)
  /\ gates[p][g].type = "Out"
  /\ gates[p][g].owner # p
  /\ received' = [received EXCEPT ![gates[p][g].owner] =
       @ \cup {[from |-> p, gate |-> g, share |-> wires[p][gates[p][g].parents[1]]]}]
  /\ wires' = [wires EXCEPT ![p][g] = Dummy(test)]
  /\ UNCHANGED <<test, harness, gates>>
  /\ UNCHANGED othersRun

\* the shares the output owner adds up
Reconstruct(t, own, messages) ==
  LET from == {m.from : m \in messages}
      share == [j \in from |-> (CHOOSE m \in messages : m.from = j).share]
  IN ShareAdd(t, own, ShareSum(t, share, from))

\* the output gate at the output owner: once the share of every other party
\* arrived, it adds them to its own
EvaluateOutputGateReveal(p, g) ==
  /\ Pending(p, g)
  /\ gates[p][g].type = "Out"
  /\ gates[p][g].owner = p
  /\ LET messages == {m \in received[p] : m.gate = g} IN
       /\ {m.from : m \in messages} = Parties(test) \ {p}
       /\ wires' = [wires EXCEPT ![p][g] =
            Reconstruct(test, wires[p][gates[p][g].parents[1]], messages)]
  /\ UNCHANGED <<test, harness, gates, received>>
  /\ UNCHANGED othersRun

\* Run returns when every registered gate was evaluated
RunReturns(p) ==
  /\ p \in Parties(test)
  /\ harness[p] = "Run"
  /\ \A g \in 1..Len(gates[p]) : Ready(p, g)
  /\ harness' = [harness EXCEPT ![p] = "returned"]
  /\ UNCHANGED <<test, gates, wires, received>>
  /\ UNCHANGED othersRun

\* abyn_parties.at(party_id)->Finish()
Finish(p) ==
  /\ p \in Parties(test)
  /\ harness[p] = "returned"
  /\ harness' = [harness EXCEPT ![p] = "finished"]
  /\ UNCHANGED <<test, gates, wires, received>>
  /\ UNCHANGED othersRun

NextRun ==
  \/ \E p \in PartyIds : Build(p)
  \/ \E p \in PartyIds, g \in GateIds : EvaluateInputGate(p, g)
  \/ \E p \in PartyIds, g \in GateIds : EvaluateAdditionGate(p, g)
  \/ \E p \in PartyIds, g \in GateIds : EvaluateXorGate(p, g)
  \/ \E p \in PartyIds, g \in GateIds : EvaluateOutputGateSend(p, g)
  \/ \E p \in PartyIds, g \in GateIds : EvaluateOutputGateReveal(p, g)
  \/ \E p \in PartyIds : RunReturns(p)
  \/ \E p \in PartyIds : Finish(p)

SpecRun == InitRun /\ [][NextRun]_vars

(***************************************************************************)
(* Subsystem MT: the multiplication-triple test.  Every party builds a     *)
(* chain of AND gates over a 1-bit and a several-bit input per party and   *)
(* calls Run; the setup phase fills the triples the AND gates consume.     *)
(* Each party holds a share a, b, c of every triple position.  A party     *)
(* draws its a and b; the cross terms a_p * b_q of every ordered pair of   *)
(* parties are shared between the two by one oblivious transfer.           *)
(***************************************************************************)
\* for (auto num_parties : {2u, 3u})
mt_num_parties_list == {2, 3}

MTPartyIds == 0..2

MTSeeds == 0..63

\* Binary: bits; Integer: std::uint8_t
MTModulus(t) == IF t.name = "Binary" THEN 2 ELSE 2 ^ 8

MTParties(t) == 0..(t.num_parties - 1)

\* one triple per AND gate and bit: num_parties - 1 gates on the 1-bit
\* inputs and as many on the several-bit inputs
NumMTs(t) == (t.num_parties - 1) * (1 + MaxMTBits)

\* the value a party draws from its random source: the draw is named by the
\* party, the peer, the purpose (0: a, 1: b, 2: transfer mask) and the position
MTRandom(t, p, q, purpose, k) ==
  LET idx == ((p * 3 + q) * 3 + purpose) * 7 + k
      x == ((t.seed + 1) * (idx * idx + 3 * idx + 7)) % 257
  IN IF t.name = "Binary" THEN (x \div 4) % 2 ELSE x % 256

MTTests ==
  [name : {"Binary", "Integer"}, num_parties : mt_num_parties_list, seed : MTSeeds]

NoTriples == [a |-> <<>>, b |-> <<>>, c |-> <<>>]

InitMT ==
  /\ IdleLife
  /\ IdleBench
  /\ IdleOp
  /\ IdleTerm
  /\ IdleChan
  /\ IdleCond
  /\ IdleBe
  /\ IdleCfg
  /\ IdleRun
  /\ IdleConv
  /\ IdleCmp
  /\ IdleCtx
  /\ IdleConn
  /\ mt_test \in MTTests
  /\ mt_harness = [p \in MTParties(mt_test) |-> "build"]
  /\ mt_provider = [p \in MTParties(mt_test) |-> NoTriples]
  /\ mt_transfers = {}
  /\ mt_opened = {}

\* the party builds the AND chain (the gates register their triples with the
\* provider) and calls Run: the provider draws a and b and starts c with the
\* party's own term a * b
MTBuild(p) ==
  /\ p \in MTParties(mt_test)
  /\ mt_harness[p] = "build"
  /\ LET a == [k \in 1..NumMTs(mt_test) |-> MTRandom(mt_test, p, p, 0, k)]
         b == [k \in 1..NumMTs(mt_test) |-> MTRandom(mt_test, p, p, 1, k)]
     IN mt_provider' = [mt_provider EXCEPT ![p] =
          [a |-> a, b |-> b,
           c |-> [k \in 1..NumMTs(mt_test) |-> (a[k] * b[k]) % MTModulus(mt_test)]]]
  /\ mt_harness' = [mt_harness EXCEPT ![p] = "setup"]
  /\ UNCHANGED <<mt_test, mt_transfers, mt_opened>>
  /\ UNCHANGED othersMT

\* one oblivious transfer of the setup phase, sender p and receiver q: p
\* keeps minus its mask r, q obtains r + a_p * b_q
ObliviousTransfer(p, q) ==
  /\ p \in MTParties(mt_test)
  /\ q \in MTParties(mt_test)
  /\ p # q
  /\ mt_harness[p] = "setup"
  /\ mt_harness[q] = "setup"
  /\ <<p, q>> \notin mt_transfers
  /\ LET M == MTModulus(mt_test)
         r == [k \in 1..NumMTs(mt_test) |-> MTRandom(mt_test, p, q, 2, k)]
     IN mt_provider' = [mt_provider EXCEPT
          ![p].c = [k \in 1..NumMTs(mt_test) |-> (@[k] + M - r[k]) % M],
          ![q].c = [k \in 1..NumMTs(mt_test) |->
                      (@[k] + r[k] + mt_provider[p].a[k] * mt_provider[q].b[k]) % M]]
  /\ mt_transfers' = mt_transfers \cup {<<p, q>>}
  /\ UNCHANGED <<mt_test, mt_harness, mt_opened>>
  /\ UNCHANGED othersMT

\* the setup phase of p ends when its transfers with every peer are done
MTSetupDone(p) ==
  /\ p \in MTParties(mt_test)
  /\ mt_harness[p] = "setup"
  /\ \A q \in MTParties(mt_test) \ {p} : {<<p, q>>, <<q, p>>} \subseteq mt_transfers
  /\ mt_harness' = [mt_harness EXCEPT ![p] = "online"]
  /\ UNCHANGED <<mt_test, mt_provider, mt_transfers, mt_opened>>
  /\ UNCHANGED othersMT

\* online phase of the AND gates: p sends its masked shares to every peer
MTOpen(p) ==
  /\ p \in MTParties(mt_test)
  /\ mt_harness[p] = "online"
  /\ p \notin mt_opened
  /\ mt_opened' = mt_opened \cup {p}
  /\ UNCHANGED <<mt_test, mt_harness, mt_provider, mt_transfers>>
  /\ UNCHANGED othersMT

\* Run returns once the masked shares of every party arrived
MTRunReturns(p) ==
  /\ p \in MTParties(mt_test)
  /\ mt_harness[p] = "online"
  /\ mt_opened = MTParties(mt_test)
  /\ mt_harness' = [mt_harness EXCEPT ![p] = "returned"]
  /\ UNCHANGED <<mt_test, mt_provider, mt_transfers, mt_opened>>
  /\ UNCHANGED othersMT

\* abyn_parties.at(party_id)->Finish()
MTFinish(p) ==
  /\ p \in MTParties(mt_test)
  /\ mt_harness[p] = "returned"
  /\ mt_harness' = [mt_harness EXCEPT ![p] = "finished"]
  /\ UNCHANGED <<mt_test, mt_provider, mt_transfers, mt_opened>>
  /\ UNCHANGED othersMT

NextMT ==
  \/ \E p \in MTPartyIds : MTBuild(p)
  \/ \E p \in MTPartyIds, q \in MTPartyIds : ObliviousTransfer(p, q)
  \/ \E p \in MTPartyIds : MTSetupDone(p)
  \/ \E p \in MTPartyIds : MTOpen(p)
  \/ \E p \in MTPartyIds : MTRunReturns(p)
  \/ \E p \in MTPartyIds : MTFinish(p)

SpecMT == InitMT /\ [][NextMT]_vars

\* a combination that starts the loop at j = 2
GetAllCombinedFromTwo(field) ==
  LET M == MTModulus(mt_test)
      RECURSIVE fold(_, _)
      fold(acc, j) ==
        IF j >= mt_test.num_parties THEN acc
        ELSE fold([k \in 1..Len(acc) |-> (acc[k] + mt_provider[j][field][k]) % M], j + 1)
  IN fold(mt_provider[0][field], 2)

\* a = party 0's a; for (j = 1; j < abyn_parties.size(); ++j) a ^= party j's a
GetAllCombined(field) ==
  LET M == MTModulus(mt_test)
      RECURSIVE fold(_, _)
      fold(acc, j) ==
        IF j >= mt_test.num_parties THEN acc
        ELSE fold([k \in 1..Len(acc) |-> (acc[k] + mt_provider[j][field][k]) % M], j + 1)
  IN fold(mt_provider[0][field], 1)

(***************************************************************************)
(* Subsystem Conv: a circuit that creates a share of a value, converts it  *)
(* twice and reveals it, built by the micro-benchmark main (CreateShare,   *)
(* ConvertShare) or by the circuit-file runner (CreateShare, the gate      *)
(* types A2Y .. Y2A, OUTPUT).                                              *)
(***************************************************************************)
Schemes == {"kArithmeticGmw", "kBooleanGmw", "kBmr"}

\* a dispatch in which y2b fell into the branch of a2y and b2y
ConvertShareWrongBranch(protocol) ==
  IF protocol \in {"b2a", "y2a"} THEN "kArithmeticGmw"
  ELSE IF protocol \in {"a2b"} THEN "kBooleanGmw"
  ELSE IF protocol \in {"a2y", "b2y", "y2b"} THEN "kBmr"
  ELSE "invalid_argument"

\* ConvertShare: the scheme sw.Convert is instantiated with
ConvertShare(protocol) ==
  IF protocol \in {"b2a", "y2a"} THEN "kArithmeticGmw"
  ELSE IF protocol \in {"a2b", "y2b"} THEN "kBooleanGmw"
  ELSE IF protocol \in {"a2y", "b2y"} THEN "kBmr"
  ELSE "invalid_argument"

\* EvaluateCircuit: the scheme input.Convert is instantiated with
ConvertGate(g_type) ==
  IF g_type \in {"A2Y", "B2Y"} THEN "kBmr"
  ELSE IF g_type \in {"A2B", "Y2B"} THEN "kBooleanGmw"
  ELSE IF g_type \in {"B2A", "Y2A"} THEN "kArithmeticGmw"
  ELSE "invalid_argument"

\* CreateShare of the micro-benchmark main (protocol a string) and of the
\* circuit-file runner (protocol a number)
CreateShare(program, protocol) ==
  IF program = "common_main"
  THEN IF protocol = "a" THEN "kArithmeticGmw"
       ELSE IF protocol \in {"b", "default"} THEN "kBooleanGmw"
       ELSE IF protocol = "y" THEN "kBmr"
       ELSE "invalid_argument"
  ELSE IF protocol = "0" THEN "kArithmeticGmw"
       ELSE IF protocol = "1" THEN "kBooleanGmw"
       ELSE IF protocol = "2" THEN "kBmr"
       ELSE "invalid_argument"

ConvertTarget(program, name) ==
  IF program = "common_main" THEN ConvertShare(name) ELSE ConvertGate(name)

ConvProtocols(program) ==
  IF program = "common_main" THEN {"a", "b", "y", "default", "x"} ELSE {"0", "1", "2", "3"}

ConvNames(program) ==
  IF program = "common_main"
  THEN {"b2a", "y2a", "a2b", "y2b", "a2y", "b2y", "a2a"}
  ELSE {"B2A", "Y2A", "A2B", "Y2B", "A2Y", "B2Y"}

\* common_main takes exactly two parties, the circuit-file runner two or more
ConvNumParties(program) == IF program = "common_main" THEN {2} ELSE {2, 3}

ConvSeeds == {3, 11}

ConvValues == 0..(2 ^ MaxBitLen - 1)

ConvTests ==
  UNION { [program : {prog_}, protocol : ConvProtocols(prog_),
           num_parties : ConvNumParties(prog_), input : ConvValues,
           first : ConvNames(prog_), second : ConvNames(prog_), seed : ConvSeeds] :
          prog_ \in Programs }

ConvParties(t) == 0..(t.num_parties - 1)

(***************************************************************************)
(* Shares of the three schemes, from the specification.  An arithmetic     *)
(* share has one wire and the parties' values add up to the secret modulo  *)
(* 2^MaxBitLen.  A boolean share has one wire per bit, least significant   *)
(* first, and the parties' bits XOR to the bit.  A garbled share has one   *)
(* wire per bit: a public masked bit, and the parties' shares of the mask. *)
(***************************************************************************)
\* ToInput: the bits of a value, least significant first
ToInput(v) == [i \in 1..MaxBitLen |-> (v \div (2 ^ (i - 1))) % 2]

RECURSIVE FromBits(_)
FromBits(bits) ==
  IF bits = <<>> THEN 0 ELSE bits[1] + 2 * FromBits(Tail(bits))

RECURSIVE SumOver(_, _, _)
SumOver(f, i, S) ==
  IF S = {} THEN 0
  ELSE LET p == CHOOSE p \in S : TRUE IN f[p][i] + SumOver(f, i, S \ {p})

\* the randomness party p draws for wire i of the share gate g creates
ConvRandom(t, g, p, i, m) ==
  LET idx == (g * 3 + p) * 7 + i
  IN (((t.seed + 1) * (idx * idx + 3 * idx + 7)) % 257) % m

NewShare(scheme, v, t, g) ==
  LET others == ConvParties(t) \ {0}
      W == 2 ^ MaxBitLen
      mask == [p \in others |-> <<ConvRandom(t, g, p, 0, W)>>]
      bits == [p \in ConvParties(t) |-> [i \in 1..MaxBitLen |-> ConvRandom(t, g, p, i, 2)]]
  IN CASE scheme = "kArithmeticGmw" ->
            [scheme |-> scheme, public |-> <<>>,
             parts |-> [p \in ConvParties(t) |->
                          IF p = 0 THEN <<(v + t.num_parties * W - SumOver(mask, 1, others)) % W>>
                          ELSE mask[p]]]
       [] scheme = "kBooleanGmw" ->
            [scheme |-> scheme, public |-> <<>>,
             parts |-> [p \in ConvParties(t) |->
                          IF p = 0
                          THEN [i \in 1..MaxBitLen |-> (ToInput(v)[i] + SumOver(bits, i, others)) % 2]
                          ELSE bits[p]]]
       [] scheme = "kBmr" ->
            [scheme |-> scheme,
             public |-> [i \in 1..MaxBitLen |->
                           (ToInput(v)[i] + SumOver(bits, i, ConvParties(t))) % 2],
             parts |-> bits]

\* the value all parties' parts of a share stand for
Reveal(share, t) ==
  CASE share.scheme = "kArithmeticGmw" ->
         SumOver(share.parts, 1, ConvParties(t)) % (2 ^ MaxBitLen)
    [] share.scheme = "kBooleanGmw" ->
         FromBits([i \in 1..MaxBitLen |-> SumOver(share.parts, i, ConvParties(t)) % 2])
    [] share.scheme = "kBmr" ->
         FromBits([i \in 1..MaxBitLen |->
                     (share.public[i] + SumOver(share.parts, i, ConvParties(t))) % 2])

\* Share.Convert: a share of the target scheme is returned as it is; any
\* other is shared anew in the target scheme by the conversion's sub-protocol
Convert(share, target, t, g) ==
  IF share.scheme = target THEN share ELSE NewShare(target, Reveal(share, t), t, g)

(***************************************************************************)
(* Subsystem Conv: initial state and actions                               *)
(***************************************************************************)
NoShare == [scheme |-> "none", public |-> <<>>, parts |-> <<>>]

NoOutput == -1

InitConv ==
  /\ IdleLife
  /\ IdleBench
  /\ IdleOp
  /\ IdleTerm
  /\ IdleChan
  /\ IdleCond
  /\ IdleBe
  /\ IdleCfg
  /\ IdleRun
  /\ IdleMT
  /\ IdleCmp
  /\ IdleCtx
  /\ IdleConn
  /\ conv_test \in ConvTests
  /\ conv_pc = "build"
  /\ conv_circuit = <<>>
  /\ conv_shares = <<>>
  /\ conv_output = NoOutput

\* the circuit: input, two conversions, output; std::invalid_argument when a
\* protocol or a conversion has no branch
ConvBuildCircuit ==
  /\ conv_pc = "build"
  /\ LET t == conv_test
         s == CreateShare(t.program, t.protocol)
         c1 == ConvertTarget(t.program, t.first)
         c2 == ConvertTarget(t.program, t.second)
     IN IF "invalid_argument" \in {s, c1, c2}
        THEN /\ conv_pc' = "invalid_argument"
             /\ UNCHANGED <<conv_circuit, conv_shares>>
        ELSE /\ conv_pc' = "Run"
             /\ conv_circuit' = <<[type |-> "In", scheme |-> s],
                                  [type |-> "Convert", scheme |-> c1],
                                  [type |-> "Convert", scheme |-> c2],
                                  [type |-> "Out", scheme |-> c2]>>
             /\ conv_shares' = [g \in 1..4 |-> NoShare]
  /\ UNCHANGED <<conv_test, conv_output>>
  /\ UNCHANGED othersConv

ConvPending(g) ==
  /\ conv_pc = "Run"
  /\ g \in 1..Len(conv_circuit)
  /\ conv_shares[g] = NoShare
  /\ g > 1 => conv_shares[g - 1] # NoShare

ConvEvaluateInput(g) ==
  /\ ConvPending(g)
  /\ conv_circuit[g].type = "In"
  /\ conv_shares' = [conv_shares EXCEPT ![g] =
       NewShare(conv_circuit[g].scheme, conv_test.input, conv_test, g)]
  /\ UNCHANGED <<conv_test, conv_pc, conv_circuit, conv_output>>
  /\ UNCHANGED othersConv

ConvEvaluateConversion(g) ==
  /\ ConvPending(g)
  /\ conv_circuit[g].type = "Convert"
  /\ conv_shares' = [conv_shares EXCEPT ![g] =
       Convert(conv_shares[g - 1], conv_circuit[g].scheme, conv_test, g)]
  /\ UNCHANGED <<conv_test, conv_pc, conv_circuit, conv_output>>
  /\ UNCHANGED othersConv

\* Out(): every party sends its part to every party; the output share holds
\* the revealed value
ConvEvaluateOutput(g) ==
  /\ ConvPending(g)
  /\ conv_circuit[g].type = "Out"
  /\ conv_shares' = [conv_shares EXCEPT ![g] = conv_shares[g - 1]]
  /\ conv_output' = Reveal(conv_shares[g - 1], conv_test)
  /\ conv_pc' = "returned"
  /\ UNCHANGED <<conv_test, conv_circuit>>
  /\ UNCHANGED othersConv

ConvGateIds == 1..4

NextConv ==
  \/ ConvBuildCircuit
  \/ \E g \in ConvGateIds : ConvEvaluateInput(g)
  \/ \E g \in ConvGateIds : ConvEvaluateConversion(g)
  \/ \E g \in ConvGateIds : ConvEvaluateOutput(g)

SpecConv == InitConv /\ [][NextConv]_vars

(***************************************************************************)
(* Subsystem Cmp: the comparison circuits.  CreateGTCircuit (ge/op.cpp)    *)
(* builds a > b, CreateOPCircuit of lt/op.cpp builds b > a, and the        *)
(* circuit-file runner builds input1 > input2 for GT and input2 > input1   *)
(* for LT.  The operator > is a chain over the bits of the two boolean     *)
(* shares, least significant first.                                        *)
(***************************************************************************)
CmpCircuits == {"ge/op.cpp:CreateGTCircuit", "lt/op.cpp:CreateOPCircuit",
                "part_003:GT", "part_003:LT"}

\* a less-than circuit that keeps the order of its operands
LtCreateOPCircuitSameOrder(a, b) == <<a, b>>

\* ge/op.cpp CreateGTCircuit: secure_uint_a > secure_uint_b
CreateGTCircuit(a, b) == <<a, b>>

\* lt/op.cpp CreateOPCircuit: secure_uint_b > secure_uint_a
LtCreateOPCircuit(a, b) == <<b, a>>

\* EvaluateCircuit: GT is input1 > input2, LT is input2 > input1
EvaluateCircuitGate(g_type, input1, input2) ==
  IF g_type = "GT" THEN <<input1, input2>> ELSE <<input2, input1>>

\* the operands of the operator > the circuit applies, left and right
GreaterThanOperands(circuit, a, b) ==
  CASE circuit = "ge/op.cpp:CreateGTCircuit" -> CreateGTCircuit(a, b)
    [] circuit = "lt/op.cpp:CreateOPCircuit" -> LtCreateOPCircuit(a, b)
    [] circuit = "part_003:GT" -> EvaluateCircuitGate("GT", a, b)
    [] circuit = "part_003:LT" -> EvaluateCircuitGate("LT", a, b)

CmpTests ==
  [circuit : CmpCircuits, num_parties : {2, 3}, a : ConvValues, b : ConvValues,
   seed : ConvSeeds]

\* a wire of a boolean share: the bit every party holds
BitOf(share, i, t) == [p \in ConvParties(t) |-> share.parts[p][i]]

XorWires(u, v, t) == [p \in ConvParties(t) |-> (u[p] + v[p]) % 2]

\* inversion is local: party 0 flips its bit
NotWire(u, t) == [p \in ConvParties(t) |-> IF p = 0 THEN 1 - u[p] ELSE u[p]]

WireValue(u, t) ==
  LET f == [p \in ConvParties(t) |-> <<u[p]>>] IN SumOver(f, 1, ConvParties(t)) % 2

\* an AND gate: the parties end with a fresh sharing of the product
AndWires(u, v, t, g) ==
  LET others == ConvParties(t) \ {0}
      r == [p \in others |-> <<ConvRandom(t, g, p, 0, 2)>>]
  IN [p \in ConvParties(t) |->
        IF p = 0 THEN (WireValue(u, t) * WireValue(v, t) + SumOver(r, 1, others)) % 2
        ELSE r[p][1]]

\* one stage of the chain, at bit i of x > y: where the bits differ the
\* result so far becomes x_i AND NOT y_i, where they agree it is kept
GreaterThanStage(x, y, i, carry, t) ==
  LET xi == BitOf(x, i, t)
      yi == BitOf(y, i, t)
      differ == XorWires(xi, yi, t)
      here == AndWires(xi, NotWire(yi, t), t, 2 * i)
      kept == AndWires(NotWire(differ, t), carry, t, 2 * i + 1)
  IN XorWires(here, kept, t)

ZeroWire(t) == [p \in ConvParties(t) |-> 0]

InitCmp ==
  /\ IdleLife
  /\ IdleBench
  /\ IdleOp
  /\ IdleTerm
  /\ IdleChan
  /\ IdleCond
  /\ IdleBe
  /\ IdleCfg
  /\ IdleRun
  /\ IdleMT
  /\ IdleConv
  /\ IdleCtx
  /\ IdleConn
  /\ cmp_test \in CmpTests
  /\ cmp_pc = "build"
  /\ cmp_operands = <<>>
  /\ cmp_stage = 0
  /\ cmp_carry = <<>>
  /\ cmp_output = NoOutput

\* the two input shares and the circuit over them
CmpBuildCircuit ==
  /\ cmp_pc = "build"
  /\ LET a == NewShare("kBooleanGmw", cmp_test.a, cmp_test, 20)
         b == NewShare("kBooleanGmw", cmp_test.b, cmp_test, 21)
     IN cmp_operands' = GreaterThanOperands(cmp_test.circuit, a, b)
  /\ cmp_carry' = ZeroWire(cmp_test)
  /\ cmp_pc' = "Run"
  /\ UNCHANGED <<cmp_test, cmp_stage, cmp_output>>
  /\ UNCHANGED othersCmp

\* the gates of the next bit of the chain
CmpEvaluateStage ==
  /\ cmp_pc = "Run"
  /\ cmp_stage < MaxBitLen
  /\ cmp_stage' = cmp_stage + 1
  /\ cmp_carry' =
       GreaterThanStage(cmp_operands[1], cmp_operands[2], cmp_stage + 1, cmp_carry, cmp_test)
  /\ UNCHANGED <<cmp_test, cmp_pc, cmp_operands, cmp_output>>
  /\ UNCHANGED othersCmp

\* the output gate reveals the result of the last stage
CmpEvaluateOutput ==
  /\ cmp_pc = "Run"
  /\ cmp_stage = MaxBitLen
  /\ cmp_output' = WireValue(cmp_carry, cmp_test)
  /\ cmp_pc' = "returned"
  /\ UNCHANGED <<cmp_test, cmp_operands, cmp_stage, cmp_carry>>
  /\ UNCHANGED othersCmp

NextCmp ==
  \/ CmpBuildCircuit
  \/ CmpEvaluateStage
  \/ CmpEvaluateOutput

SpecCmp == InitCmp /\ [][NextCmp]_vars

(***************************************************************************)
(* Subsystem Ctx: the construction of a communication Context from an IP   *)
(* address, a port, a role and a peer id.                                  *)
(***************************************************************************)
\* const std::string_view incorrect_symbols("*-+;:,/?'[]_=abcdefghijklmnopqrstuvwxyz")
incorrect_symbols ==
  <<"*", "-", "+", ";", ":", ",", "/", "?", "'", "[", "]", "_", "=",
    "a", "b", "c", "d", "e", "f", "g", "h", "i", "j", "k", "l", "m",
    "n", "o", "p", "q", "r", "s", "t", "u", "v", "w", "x", "y", "z">>

\* std::to_string((std::uint8_t)std::rand()): some of the 256 values
r_u8 == {<<"0">>, <<"7">>, <<"2", "5">>, <<"2", "5", "5">>}

\* fmt::format("{}.{}.{}.{}", r_u8(), r_u8(), r_u8(), r_u8()), and the
\* address the connection tests use
Quads ==
  { <<"0">> \o <<".">> \o <<"0">> \o <<".">> \o <<"0">> \o <<".">> \o <<"0">>,
    <<"1", "2", "7">> \o <<".">> \o <<"0">> \o <<".">> \o <<"0">> \o <<".">> \o <<"1">> }
    \cup
  { a \o <<".">> \o b \o <<".">> \o a \o <<".">> \o c : a \in r_u8, b \in r_u8, c \in {<<"2", "5", "5">>} }

\* result.at(rand() % result.size()) = incorrect_symbols.at(rand() % size)
rand_invalid_ip ==
  UNION { { [result EXCEPT ![pos] = incorrect_symbols[k]] :
              pos \in 1..Len(result), k \in 1..Len(incorrect_symbols) } :
          result \in Quads }

Roles == {"Server", "Client"}

ContextArguments ==
  [ip : Quads \cup rand_invalid_ip, port : {0, 7777, UInt16Max}, role : Roles, id : {0, 1}]

\* the fields of an address between its dots
RECURSIVE SplitAtDots(_)
SplitAtDots(s) ==
  IF \A i \in 1..Len(s) : s[i] # "." THEN <<s>>
  ELSE LET k == CHOOSE i \in 1..Len(s) : s[i] = "." /\ \A j \in 1..(i - 1) : s[j] # "."
       IN <<SubSeq(s, 1, k - 1)>> \o SplitAtDots(SubSeq(s, k + 1, Len(s)))

\* a validation that only counts the fields
IsValidIPCountingFields(s) == Len(SplitAtDots(s)) = 4

\* an IP address is four decimal numbers up to 255, separated by dots
IsValidIP(s) ==
  LET fields == SplitAtDots(s)
  IN /\ Len(fields) = 4
     /\ \A i \in 1..4 :
          /\ Len(fields[i]) \in 1..3
          /\ AllDigits(fields[i])
          /\ DecimalValue(fields[i]) <= 255

InitCtx ==
  /\ IdleLife
  /\ IdleBench
  /\ IdleOp
  /\ IdleTerm
  /\ IdleChan
  /\ IdleCond
  /\ IdleBe
  /\ IdleCfg
  /\ IdleRun
  /\ IdleMT
  /\ IdleConv
  /\ IdleCmp
  /\ IdleConn
  /\ ctx_arguments \in ContextArguments
  /\ ctx_pc = "call"

\* Communication::Context(ip, port, role, id): a malformed address is a
\* configuration error, raised at the call
ContextConstructor ==
  /\ ctx_pc = "call"
  /\ ctx_pc' = IF IsValidIP(ctx_arguments.ip) THEN "constructed" ELSE "thrown"
  /\ UNCHANGED ctx_arguments
  /\ UNCHANGED othersCtx

NextCtx == ContextConstructor

SpecCtx == InitCtx /\ [][NextCtx]_vars

(***************************************************************************)
(* Subsystem Conn: the connection tests.  Every party holds one Context    *)
(* per peer, a Server or a Client on a port of 127.0.0.1, and calls        *)
(* Connect in a task of its own.  The test then reads IsConnected of every *)
(* context of every party.                                                 *)
(***************************************************************************)
NoContext == [role |-> "none", port |-> -1]

Context(role, port) == [role |-> role, port |-> port]

\* the contexts of the four parties, ports as PORT_OFFSET + port, given the
\* port of the context of party 2 for party 1
FourParties(port_2_1) ==
  [p \in 0..3 |-> [q \in 0..3 |->
     CASE p = 0 /\ q = 1 -> Context("Server", 0)
       [] p = 0 /\ q = 2 -> Context("Server", 1)
       [] p = 0 /\ q = 3 -> Context("Server", 2)
       [] p = 1 /\ q = 0 -> Context("Client", 0)
       [] p = 1 /\ q = 2 -> Context("Server", 3)
       [] p = 1 /\ q = 3 -> Context("Server", 4)
       [] p = 2 /\ q = 0 -> Context("Client", 1)
       [] p = 2 /\ q = 1 -> Context("Client", port_2_1)
       [] p = 2 /\ q = 3 -> Context("Server", 5)
       [] p = 3 /\ q = 0 -> Context("Client", 2)
       [] p = 3 /\ q = 1 -> Context("Client", 4)
       [] p = 3 /\ q = 2 -> Context("Client", 5)
       [] OTHER -> NoContext]]

\* contexts in which party 2 reaches party 1 on PORT_OFFSET + 4, the port of
\* party 3
NetworkConnectionContextsPortSlip == FourParties(4)

\* NetworkConnection_OpenMP and NetworkConnection_ManualThreads: party 2
\* reaches party 1 on PORT_OFFSET + 3
NetworkConnectionContexts == FourParties(3)

\* Party::GetNLocalParties(num_parties, PORT_OFFSET): of every two parties the
\* one with the smaller id is the Server, on a port of their own
GetNLocalParties(num_parties) ==
  [p \in 0..(num_parties - 1) |-> [q \in 0..(num_parties - 1) |->
     IF p = q THEN NoContext
     ELSE IF p < q THEN Context("Server", p * num_parties + q)
     ELSE Context("Client", q * num_parties + p)]]

\* configurations no test uses: a peer that never calls Connect, two
\* Servers facing each other, a Client on a port nobody listens on
ConnTests ==
  { [name |-> nm, contexts |-> NetworkConnectionContexts, absent |-> {}] :
      nm \in {"NetworkConnection_OpenMP", "NetworkConnection_ManualThreads"} }
    \cup
  { [name |-> "NetworkConnection_LocalPartiesFromStaticFunction",
     contexts |-> GetNLocalParties(n), absent |-> {}] : n \in num_parties_list }
    \cup
  { [name |-> "peer absent", contexts |-> GetNLocalParties(3), absent |-> {a}] : a \in 0..2 }
    \cup
  { [name |-> "two servers",
     contexts |-> [GetNLocalParties(3) EXCEPT ![2][0] = Context("Server", 2)],
     absent |-> {}],
    [name |-> "wrong port",
     contexts |-> [GetNLocalParties(2) EXCEPT ![1][0] = Context("Client", 7)],
     absent |-> {}] }

ConnParties(t) == DOMAIN t.contexts

Peers(t, p) == {q \in ConnParties(t) : t.contexts[p][q] # NoContext}

InitConn ==
  /\ IdleLife
  /\ IdleBench
  /\ IdleOp
  /\ IdleTerm
  /\ IdleChan
  /\ IdleCond
  /\ IdleBe
  /\ IdleCfg
  /\ IdleRun
  /\ IdleMT
  /\ IdleConv
  /\ IdleCmp
  /\ IdleCtx
  /\ conn_test \in ConnTests
  /\ conn_pc = [p \in ConnParties(conn_test) |->
                  IF p \in conn_test.absent THEN "absent" ELSE "task"]
  /\ conn_contexts = [p \in ConnParties(conn_test) |->
                        [q \in ConnParties(conn_test) |-> "created"]]
  /\ all_connected = "false"
  /\ conn_done = FALSE

\* Connect is called: the Server contexts listen, the Client contexts try to
\* connect
Connect(p) ==
  /\ p \in ConnParties(conn_test)
  /\ conn_pc[p] = "task"
  /\ conn_pc' = [conn_pc EXCEPT ![p] = "Connect"]
  /\ conn_contexts' = [conn_contexts EXCEPT ![p] =
       [q \in ConnParties(conn_test) |->
          IF q \notin Peers(conn_test, p) THEN "created"
          ELSE IF conn_test.contexts[p][q].role = "Server" THEN "listening"
          ELSE "connecting"]]
  /\ UNCHANGED <<conn_test, all_connected, conn_done>>
  /\ UNCHANGED othersConn

\* a TCP handshake: the Client context of p for q reaches the context that
\* listens on its port, the Server context of r for s
Handshake(p, q, r, s) ==
  /\ {p, q, r, s} \subseteq ConnParties(conn_test)
  /\ conn_contexts[p][q] = "connecting"
  /\ conn_contexts[r][s] = "listening"
  /\ conn_test.contexts[p][q].port = conn_test.contexts[r][s].port
  /\ conn_contexts' = [conn_contexts EXCEPT ![p][q] = "connected", ![r][s] = "connected"]
  /\ UNCHANGED <<conn_test, conn_pc, all_connected, conn_done>>
  /\ UNCHANGED othersConn

\* a context that waits and some context that may still meet it on its port
MayStillMeet(p, q, r, s) ==
  /\ conn_test.contexts[r][s] # NoContext
  /\ conn_test.contexts[p][q].port = conn_test.contexts[r][s].port
  /\ conn_test.contexts[p][q].role # conn_test.contexts[r][s].role
  /\ \/ conn_pc[r] = "task"
     \/ conn_contexts[r][s] \in {"listening", "connecting"}

\* the connection-setup budget of a context runs out: nobody is, or will be,
\* at the other end of its port
Unreachable(p, q) ==
  /\ {p, q} \subseteq ConnParties(conn_test)
  /\ conn_contexts[p][q] \in {"listening", "connecting"}
  /\ ~\E r \in ConnParties(conn_test), s \in ConnParties(conn_test) : MayStillMeet(p, q, r, s)
  /\ conn_contexts' = [conn_contexts EXCEPT ![p][q] = "failed"]
  /\ UNCHANGED <<conn_test, conn_pc, all_connected, conn_done>>
  /\ UNCHANGED othersConn

\* Connect returns once every context is connected
ConnectReturns(p) ==
  /\ p \in ConnParties(conn_test)
  /\ conn_pc[p] = "Connect"
  /\ \A q \in Peers(conn_test, p) : conn_contexts[p][q] = "connected"
  /\ conn_pc' = [conn_pc EXCEPT ![p] = "returned"]
  /\ UNCHANGED <<conn_test, conn_contexts, all_connected, conn_done>>
  /\ UNCHANGED othersConn

\* Connect fails when a peer was unreachable; its waiting contexts close
ConnectFails(p) ==
  /\ p \in ConnParties(conn_test)
  /\ conn_pc[p] = "Connect"
  /\ \E q \in Peers(conn_test, p) : conn_contexts[p][q] = "failed"
  /\ conn_pc' = [conn_pc EXCEPT ![p] = "failed"]
  /\ conn_contexts' = [conn_contexts EXCEPT ![p] =
       [q \in ConnParties(conn_test) |->
          IF conn_contexts[p][q] \in {"listening", "connecting"} THEN "failed"
          ELSE conn_contexts[p][q]]]
  /\ UNCHANGED <<conn_test, all_connected, conn_done>>
  /\ UNCHANGED othersConn

IsConnected(p, q) == conn_contexts[p][q] = "connected"

\* all tasks ended: all_connected = true; all_connected &= IsConnected() for
\* every context of every party; an exception leaves all_connected = false
CheckAllConnected ==
  /\ conn_test.name # "none"
  /\ ~conn_done
  /\ \A p \in ConnParties(conn_test) : conn_pc[p] \in {"returned", "failed", "absent"}
  /\ conn_done' = TRUE
  /\ all_connected' =
       IF \E p \in ConnParties(conn_test) : conn_pc[p] = "failed" THEN "false"
       ELSE IF \A p \in ConnParties(conn_test) \ conn_test.absent :
                 \A q \in Peers(conn_test, p) : IsConnected(p, q)
            THEN "true" ELSE "false"
  /\ UNCHANGED <<conn_test, conn_pc, conn_contexts>>
  /\ UNCHANGED othersConn

ConnPartyIds == 0..3

NextConn ==
  \/ \E p \in ConnPartyIds : Connect(p)
  \/ \E p \in ConnPartyIds, q \in ConnPartyIds, r \in ConnPartyIds, s \in ConnPartyIds :
       Handshake(p, q, r, s)
  \/ \E p \in ConnPartyIds, q \in ConnPartyIds : Unreachable(p, q)
  \/ \E p \in ConnPartyIds : ConnectReturns(p)
  \/ \E p \in ConnPartyIds : ConnectFails(p)
  \/ CheckAllConnected

\* every task runs in a thread of its own and the handshakes are the work of
\* the operating system: whatever stays possible happens
SpecConn == InitConn /\ [][NextConn]_vars /\ WF_vars(NextConn)

(***************************************************************************)
(* Subsystem Be: two parties build the same circuit, each in its own       *)
(* Backend, and run it.  Every gate has one output wire; a wire holds the  *)
(* party's share of a value modulo BeModulus, and two readiness flags.     *)
(***************************************************************************)
BeParties == 0..1

BeGateIds == 1..7

BeCircuits == {"diamond", "fan_in", "selection"}

\* std::uint8_t values; the multiplexer works on bits
BeModulus(t) == IF t.circuit = "selection" THEN 2 ELSE 2 ^ 8

NoOwner == -1

BeGate(type, parents, owner) == [type |-> type, parents |-> parents, owner |-> owner]

\* ti10 = r1 - r9; ti9 = r1 - r9; i28_1 = ti10 * ti9; i28_1.Out(): the wires of
\* both inputs feed two gates each
DiamondCircuit ==
  << BeGate("In", <<>>, 0), BeGate("In", <<>>, 1),
     BeGate("Sub", <<1, 2>>, NoOwner), BeGate("Sub", <<1, 2>>, NoOwner),
     BeGate("Mul", <<3, 4>>, NoOwner), BeGate("Out", <<5>>, NoOwner) >>

\* r1, r9 and r2 are inputs of party 0, 1 and 0; a sum of two of them is added to
\* the third, and both sums are outputs
FanInCircuit ==
  << BeGate("In", <<>>, 0), BeGate("In", <<>>, 1), BeGate("In", <<>>, 0),
     BeGate("Add", <<1, 2>>, NoOwner), BeGate("Add", <<4, 3>>, NoOwner),
     BeGate("Out", <<5>>, NoOwner), BeGate("Out", <<4>>, NoOwner) >>

\* selection.Mux(a, b) as the gates of selection * (a ^ b) ^ b
Mux(selection, a, b, first) ==
  << BeGate("Sub", <<a, b>>, NoOwner), BeGate("Mul", <<selection, first>>, NoOwner),
     BeGate("Add", <<first + 1, b>>, NoOwner) >>

\* ComputeInput: In(input, 0), In(input, 1); CreateOPCircuit: the selection is
\* the wire of DummyBmrShare, the result is selection.Mux(a, b); then Out()
SelectionCircuit ==
  << BeGate("In", <<>>, 0), BeGate("In", <<>>, 1), BeGate("Dummy", <<>>, NoOwner) >>
    \o Mux(3, 1, 2, 4) \o << BeGate("Out", <<6>>, NoOwner) >>

BeCircuit(t) ==
  CASE t.circuit = "diamond" -> DiamondCircuit
    [] t.circuit = "fan_in" -> FanInCircuit
    [] t.circuit = "selection" -> SelectionCircuit

BeGates(t) == DOMAIN BeCircuit(t)

\* the gates of the circuit: a wire of DummyBmrShare has no gate
IsGate(t, g) == g \in BeGates(t) /\ BeCircuit(t)[g].type # "Dummy"

\* the cleartext inputs of the two parties, and what a party passes to In()
\* for the input of the other party: zero, or its own input (ComputeInput)
BeInputs == {<<200, 100>>, <<1, 1>>}

BeDummies == {"zero", "own input"}

\* online_after_setup is the option of every party's command line
BeTests ==
  { t \in [circuit : BeCircuits, input : BeInputs, dummy : BeDummies,
           online_after_setup : [BeParties -> BOOLEAN]] :
      t.dummy = "zero" => t.input = <<200, 100>> }

\* the cleartext value of input gate g
BeInputValue(t, g) ==
  (t.input[BeCircuit(t)[g].owner + 1] + 7 * (g - 1)) % BeModulus(t)

\* the value party p passes to In() for input gate g
PassedToIn(t, p, g) ==
  IF BeCircuit(t)[g].owner = p THEN BeInputValue(t, g)
  ELSE IF t.dummy = "zero" THEN 0
  ELSE t.input[p + 1] % BeModulus(t)

(***************************************************************************)
(* Subsystem Be: the gates' evaluation procedures                          *)
(***************************************************************************)
Other(p) == 1 - p

\* the randomness of gate g at party p
BeRandom(t, g, p, k) ==
  (((g * g + 3 * g + 7) * (5 * p + 2 * k + 1) + k) % 251) % BeModulus(t)

\* the mask of input gate g held by a party that does not own the input
BeMask(t, g, p) == BeRandom(t, g, p, 0)

\* an input gate whose share at a party that does not own the input is the
\* value that party passed to In()
BeInputShareOfPassedValue(t, g, p) ==
  IF BeCircuit(t)[g].owner = p
  THEN (PassedToIn(t, p, g) + BeModulus(t) - BeMask(t, g, Other(p))) % BeModulus(t)
  ELSE PassedToIn(t, p, g)

\* the share of input gate g at party p: the owner holds its value minus the
\* mask, the other party the mask; what the other party passed to In() is not
\* read
BeInputShare(t, g, p) ==
  IF BeCircuit(t)[g].owner = p
  THEN (PassedToIn(t, p, g) + BeModulus(t) - BeMask(t, g, Other(p))) % BeModulus(t)
  ELSE BeMask(t, g, p)

\* the share of party p of the multiplication triple of gate g: c = a * b
Triple(t, g, p) ==
  LET a == [q \in BeParties |-> BeRandom(t, g, q, 1)]
      b == [q \in BeParties |-> BeRandom(t, g, q, 2)]
      c1 == BeRandom(t, g, 1, 3)
      ab == ((a[0] + a[1]) * (b[0] + b[1])) % BeModulus(t)
  IN [a |-> a[p], b |-> b[p],
      c |-> IF p = 1 THEN c1 ELSE (ab + BeModulus(t) - c1) % BeModulus(t)]

Parent(g, i) == BeCircuit(be_test)[g].parents[i]

\* whether the online evaluation of gate g exchanges a message with the peer
Communicates(t, g) == BeCircuit(t)[g].type \in {"Mul", "Out"}

\* what party p sends for gate g: its share (output gate), or its shares of
\* the two operands masked with the triple (multiplication)
Payload(p, g) ==
  LET m == BeModulus(be_test) IN
  IF BeCircuit(be_test)[g].type = "Out" THEN << wire_value[p][Parent(g, 1)] >>
  ELSE << (wire_value[p][Parent(g, 1)] + m - Triple(be_test, g, p).a) % m,
          (wire_value[p][Parent(g, 2)] + m - Triple(be_test, g, p).b) % m >>

Sent(p, g) == \E msg \in be_messages : msg.from = p /\ msg.gate = g

Received(p, g) == (CHOOSE msg \in be_messages : msg.from = Other(p) /\ msg.gate = g).payload

\* the value the online evaluation of gate g leaves on its wire at party p
OnlineValue(p, g) ==
  LET t == be_test
      m == BeModulus(t)
      type == BeCircuit(t)[g].type
  IN CASE type = "In" ->
            IF BeCircuit(t)[g].owner = p THEN BeInputShare(t, g, p) ELSE wire_value[p][g]
       [] type = "Add" -> (wire_value[p][Parent(g, 1)] + wire_value[p][Parent(g, 2)]) % m
       [] type = "Sub" -> (wire_value[p][Parent(g, 1)] + m - wire_value[p][Parent(g, 2)]) % m
       [] type = "Mul" ->
            LET d == (Payload(p, g)[1] + Received(p, g)[1]) % m
                e == (Payload(p, g)[2] + Received(p, g)[2]) % m
                mt == Triple(t, g, p)
            IN (mt.c + d * mt.b + e * mt.a + (IF p = 0 THEN d * e ELSE 0)) % m
       [] type = "Out" -> (wire_value[p][Parent(g, 1)] + Received(p, g)[1]) % m

\* the input gate of a party that does not own the input writes its mask in
\* the setup phase; every other gate writes its wire in the online phase
WritesInSetup(t, p, g) ==
  BeCircuit(t)[g].type = "In" /\ BeCircuit(t)[g].owner # p

Entry(what, by, phase) == [what |-> what, by |-> by, phase |-> phase]

\* a DummyBmrShare that leaves out SetOnlineFinished()
DummyBmrShareNotFinished ==
  << Entry("public_keys", "DummyBmrShare", "build"),
     Entry("secret_keys", "DummyBmrShare", "build"),
     Entry("permutation_bits", "DummyBmrShare", "build"),
     Entry("setup_ready", "DummyBmrShare", "build") >>

\* a DummyBmrShare that sets the keys and the permutation bits after it marked
\* the wire ready
DummyBmrShareKeysLast ==
  << Entry("setup_ready", "DummyBmrShare", "build"),
     Entry("online_ready", "DummyBmrShare", "build"),
     Entry("public_keys", "DummyBmrShare", "build"),
     Entry("secret_keys", "DummyBmrShare", "build"),
     Entry("permutation_bits", "DummyBmrShare", "build") >>

\* DummyBmrShare: GetMutablePublicKeys() = ..; GetMutableSecretKeys() = ..;
\* GetMutablePermutationBits() = ..; SetSetupIsReady(); SetOnlineFinished()
DummyBmrShare ==
  << Entry("public_keys", "DummyBmrShare", "build"),
     Entry("secret_keys", "DummyBmrShare", "build"),
     Entry("permutation_bits", "DummyBmrShare", "build"),
     Entry("setup_ready", "DummyBmrShare", "build"),
     Entry("online_ready", "DummyBmrShare", "build") >>

\* whether the operations of log marked the wire ready
Marked(log, what) == \E i \in DOMAIN log : log[i].what = what

\* SetSetupIsReady: setup_ready_ = true
SetSetupIsReady(flag) == TRUE

\* DynamicClear: setup_ready_ = false
DynamicClear(flag) == FALSE

\* a setup evaluation that does not wait for the gate's inputs
SetupInputsNotAwaited(p, g) == TRUE

\* every input wire of gate g is setup-ready
SetupInputsReady(p, g) ==
  \A i \in 1..Len(BeCircuit(be_test)[g].parents) : setup_ready[p][Parent(g, i)]

\* online evaluation that waits for the setup-ready flags of the gate's inputs
OnlineInputsSetupReady(p, g) ==
  \A i \in 1..Len(BeCircuit(be_test)[g].parents) : setup_ready[p][Parent(g, i)]

\* every input wire of gate g is online-ready
OnlineInputsReady(p, g) ==
  \A i \in 1..Len(BeCircuit(be_test)[g].parents) : online_ready[p][Parent(g, i)]

SetupPhaseOver(p) ==
  \A g \in BeGates(be_test) : gate_state[p][g] \notin {"Created", "SetupPending"}

\* a CreateParty that configures the opposite of the option
SetOnlineAfterSetupNegated(option) == ~option

\* configuration->SetOnlineAfterSetup(user_options["online-after-setup"].as<bool>())
SetOnlineAfterSetup(option) == option

GetOnlineAfterSetup(p) == SetOnlineAfterSetup(be_test.online_after_setup[p])

\* the task of a gate: with onlineAfterSetup it ends with the gate's setup and
\* the online evaluations are scheduled once every setup is done; without, it
\* goes on to the gate's online evaluation at once
AfterEvaluateSetup(online_after_setup) ==
  IF online_after_setup THEN "SetupDone" ELSE "OnlinePending"

\* a Clear that may come while Run() is under way
ClearAllowedDuringRun(p) == be_pc[p] \in {"Run", "returned"}

\* the wires are cleared between runs, never during one
ClearAllowed(p) == be_pc[p] = "returned"

(***************************************************************************)
(* Subsystem Be: initial state and actions                                 *)
(***************************************************************************)
InitBe ==
  /\ IdleLife
  /\ IdleBench
  /\ IdleOp
  /\ IdleTerm
  /\ IdleChan
  /\ IdleCond
  /\ IdleCfg
  /\ IdleRun
  /\ IdleMT
  /\ IdleConv
  /\ IdleCmp
  /\ IdleCtx
  /\ IdleConn
  /\ be_test \in BeTests
  /\ be_pc = [p \in BeParties |-> "build"]
  /\ gate_state = [p \in BeParties |-> <<>>]
  /\ setup_ready = [p \in BeParties |-> <<>>]
  /\ online_ready = [p \in BeParties |-> <<>>]
  /\ wire_value = [p \in BeParties |-> <<>>]
  /\ wire_log = [p \in BeParties |-> <<>>]
  /\ be_messages = {}

\* the circuit-building calls of party p: every gate is registered, and the
\* wire of DummyBmrShare is ready from the start
BeBuild(p) ==
  /\ be_pc[p] = "build"
  /\ LET circuit == BeCircuit(be_test)
         dummy == [g \in DOMAIN circuit |-> circuit[g].type = "Dummy"]
     IN /\ gate_state' = [gate_state EXCEPT ![p] =
               [g \in DOMAIN circuit |-> IF dummy[g] THEN "NoGate" ELSE "Created"]]
        /\ setup_ready' = [setup_ready EXCEPT ![p] =
               [g \in DOMAIN circuit |-> dummy[g] /\ Marked(DummyBmrShare, "setup_ready")]]
        /\ online_ready' = [online_ready EXCEPT ![p] =
               [g \in DOMAIN circuit |-> dummy[g] /\ Marked(DummyBmrShare, "online_ready")]]
        /\ wire_value' = [wire_value EXCEPT ![p] = [g \in DOMAIN circuit |-> 0]]
        /\ wire_log' = [wire_log EXCEPT ![p] =
               [g \in DOMAIN circuit |-> IF dummy[g] THEN DummyBmrShare ELSE <<>>]]
  /\ be_pc' = [be_pc EXCEPT ![p] = "built"]
  /\ UNCHANGED <<be_test, be_messages>>
  /\ UNCHANGED othersBe

\* party->Run(): the setup phase of every registered gate is scheduled
BeRun(p) ==
  /\ be_pc[p] = "built"
  /\ be_pc' = [be_pc EXCEPT ![p] = "Run"]
  /\ gate_state' = [gate_state EXCEPT ![p] =
       [g \in BeGates(be_test) |-> IF @[g] = "Created" THEN "SetupPending" ELSE @[g]]]
  /\ UNCHANGED <<be_test, setup_ready, online_ready, wire_value, wire_log, be_messages>>
  /\ UNCHANGED othersBe

\* EvaluateSetup of gate g at party p
EvaluateSetup(p, g) ==
  /\ be_pc[p] = "Run"
  /\ IsGate(be_test, g)
  /\ gate_state[p][g] = "SetupPending"
  /\ SetupInputsReady(p, g)
  /\ gate_state' = [gate_state EXCEPT ![p][g] = AfterEvaluateSetup(GetOnlineAfterSetup(p))]
  /\ setup_ready' = [setup_ready EXCEPT ![p][g] = SetSetupIsReady(@)]
  /\ IF WritesInSetup(be_test, p, g)
     THEN /\ wire_value' = [wire_value EXCEPT ![p][g] = BeInputShare(be_test, g, p)]
          /\ wire_log' = [wire_log EXCEPT ![p][g] =
               @ \o << Entry("value", g, "setup"), Entry("setup_ready", g, "setup") >>]
     ELSE /\ wire_value' = wire_value
          /\ wire_log' = [wire_log EXCEPT ![p][g] = Append(@, Entry("setup_ready", g, "setup"))]
  /\ UNCHANGED <<be_test, be_pc, online_ready, be_messages>>
  /\ UNCHANGED othersBe

\* with onlineAfterSetup: the setup of every gate is done, the online phase of
\* every gate is scheduled
StartOnlinePhase(p) ==
  /\ be_pc[p] = "Run"
  /\ GetOnlineAfterSetup(p)
  /\ SetupPhaseOver(p)
  /\ \E g \in BeGates(be_test) : gate_state[p][g] = "SetupDone"
  /\ gate_state' = [gate_state EXCEPT ![p] =
       [g \in BeGates(be_test) |-> IF @[g] = "SetupDone" THEN "OnlinePending" ELSE @[g]]]
  /\ UNCHANGED <<be_test, be_pc, setup_ready, online_ready, wire_value, wire_log, be_messages>>
  /\ UNCHANGED othersBe

\* EvaluateOnline of a gate that talks to the peer, first half: the inputs are
\* ready, the party sends its message
SendMessage(p, g) ==
  /\ be_pc[p] = "Run"
  /\ IsGate(be_test, g)
  /\ gate_state[p][g] = "OnlinePending"
  /\ Communicates(be_test, g)
  /\ OnlineInputsReady(p, g)
  /\ ~Sent(p, g)
  /\ be_messages' = be_messages \cup {[from |-> p, gate |-> g, payload |-> Payload(p, g)]}
  /\ UNCHANGED <<be_test, be_pc, gate_state, setup_ready, online_ready, wire_value, wire_log>>
  /\ UNCHANGED othersBe

\* EvaluateOnline of gate g at party p, to its end
EvaluateOnline(p, g) ==
  /\ be_pc[p] = "Run"
  /\ IsGate(be_test, g)
  /\ gate_state[p][g] = "OnlinePending"
  /\ OnlineInputsReady(p, g)
  /\ Communicates(be_test, g) => Sent(p, g) /\ Sent(Other(p), g)
  /\ gate_state' = [gate_state EXCEPT ![p][g] = "OnlineDone"]
  /\ online_ready' = [online_ready EXCEPT ![p][g] = TRUE]
  /\ wire_value' = [wire_value EXCEPT ![p][g] = OnlineValue(p, g)]
  /\ wire_log' = [wire_log EXCEPT ![p][g] =
       IF WritesInSetup(be_test, p, g)
       THEN Append(@, Entry("online_ready", g, "online"))
       ELSE @ \o << Entry("value", g, "online"), Entry("online_ready", g, "online") >>]
  /\ UNCHANGED <<be_test, be_pc, setup_ready, be_messages>>
  /\ UNCHANGED othersBe

\* a Run() that also returns when the peer is gone
EveryGateOnlineDoneOrPeerGone(p) ==
  \/ \A g \in BeGates(be_test) : IsGate(be_test, g) => gate_state[p][g] = "OnlineDone"
  \/ be_pc[Other(p)] = "disconnected"

\* every registered gate of party p reached OnlineDone
EveryGateOnlineDone(p) ==
  \A g \in BeGates(be_test) : IsGate(be_test, g) => gate_state[p][g] = "OnlineDone"

\* Run() returns when every registered gate reached OnlineDone
BeRunReturns(p) ==
  /\ be_pc[p] = "Run"
  /\ EveryGateOnlineDone(p)
  /\ be_pc' = [be_pc EXCEPT ![p] = "returned"]
  /\ UNCHANGED <<be_test, gate_state, setup_ready, online_ready, wire_value, wire_log,
                 be_messages>>
  /\ UNCHANGED othersBe

\* the wires and gates of party p are cleared
BeClear(p) ==
  /\ ClearAllowed(p)
  /\ be_pc' = [be_pc EXCEPT ![p] = "cleared"]
  /\ setup_ready' = [setup_ready EXCEPT ![p] =
       [g \in BeGates(be_test) |-> DynamicClear(@[g])]]
  /\ online_ready' = [online_ready EXCEPT ![p] = [g \in BeGates(be_test) |-> FALSE]]
  /\ gate_state' = [gate_state EXCEPT ![p] =
       [g \in BeGates(be_test) |-> IF @[g] = "NoGate" THEN "NoGate" ELSE "Created"]]
  /\ UNCHANGED <<be_test, wire_value, wire_log, be_messages>>
  /\ UNCHANGED othersBe

NextBe ==
  \/ \E p \in BeParties : BeBuild(p)
  \/ \E p \in BeParties : BeRun(p)
  \/ \E p \in BeParties, g \in BeGateIds : EvaluateSetup(p, g)
  \/ \E p \in BeParties : StartOnlinePhase(p)
  \/ \E p \in BeParties, g \in BeGateIds : SendMessage(p, g)
  \/ \E p \in BeParties, g \in BeGateIds : EvaluateOnline(p, g)
  \/ \E p \in BeParties : BeRunReturns(p)
  \/ \E p \in BeParties : BeClear(p)

\* the process of party p ends, or its connection breaks, after its Run()
\* started and before the termination messages are exchanged: what it has sent
\* stays sent, and it takes no further step
Disconnect(p) ==
  /\ be_pc[p] \in {"Run", "returned"}
  /\ be_pc' = [be_pc EXCEPT ![p] = "disconnected"]
  /\ UNCHANGED <<be_test, gate_state, setup_ready, online_ready, wire_value, wire_log,
                 be_messages>>
  /\ UNCHANGED othersBe

NextBeDisconnect ==
  \/ \E p \in BeParties : BeBuild(p)
  \/ \E p \in BeParties : BeRun(p)
  \/ \E p \in BeParties, g \in BeGateIds : EvaluateSetup(p, g)
  \/ \E p \in BeParties : StartOnlinePhase(p)
  \/ \E p \in BeParties, g \in BeGateIds : SendMessage(p, g)
  \/ \E p \in BeParties, g \in BeGateIds : EvaluateOnline(p, g)
  \/ \E p \in BeParties : BeRunReturns(p)
  \/ \E p \in BeParties : BeClear(p)
  \/ \E p \in BeParties : Disconnect(p)

SpecBe == InitBe /\ [][NextBe]_vars

\* the same run with parties that may disconnect
SpecBeDisconnect == InitBe /\ [][NextBeDisconnect]_vars

\* fair scheduling of the gate evaluations and of message delivery
SpecBeFair == InitBe /\ [][NextBe]_vars /\ WF_vars(NextBe)

(***************************************************************************)
(* Subsystem Cond: marking a wire setup-ready and waiting for it           *)
(***************************************************************************)
CondThreads == {"w1", "w2", "w3"}

\* a SetSetupIsReady that stores the flag without taking the mutex
SetSetupIsReadyWithoutLock == << "store", "NotifyAll" >>

\* SetSetupIsReady, step by step:
\*   { std::scoped_lock lock(setup_ready_cond_->GetMutex()); setup_ready_ = true; }
\*   setup_ready_cond_->NotifyAll();
SetSetupIsReadyBody == << "lock", "store", "unlock", "NotifyAll" >>

SetterAt ==
  IF setter_pc \in DOMAIN SetSetupIsReadyBody THEN SetSetupIsReadyBody[setter_pc] ELSE "done"

InitCond ==
  /\ IdleLife
  /\ IdleBench
  /\ IdleOp
  /\ IdleTerm
  /\ IdleChan
  /\ IdleCfg
  /\ IdleRun
  /\ IdleMT
  /\ IdleConv
  /\ IdleCmp
  /\ IdleCtx
  /\ IdleConn
  /\ IdleBe
  /\ cond_waiters \in {{"w1"}, {"w1", "w2"}, CondThreads}
  /\ setup_ready_ = FALSE
  /\ cond_mutex = "free"
  /\ setter_pc = 1
  /\ waiter_pc = [w \in CondThreads |-> "start"]
  /\ cond_blocked = {}
  /\ cond_spurious = {}

\* std::scoped_lock lock(setup_ready_cond_->GetMutex())
SetterLock ==
  /\ SetterAt = "lock"
  /\ cond_mutex = "free"
  /\ cond_mutex' = "setter"
  /\ setter_pc' = setter_pc + 1
  /\ UNCHANGED <<cond_waiters, setup_ready_, waiter_pc, cond_blocked, cond_spurious>>
  /\ UNCHANGED othersCond

\* setup_ready_ = true
SetterStore ==
  /\ SetterAt = "store"
  /\ setup_ready_' = TRUE
  /\ setter_pc' = setter_pc + 1
  /\ UNCHANGED <<cond_waiters, cond_mutex, waiter_pc, cond_blocked, cond_spurious>>
  /\ UNCHANGED othersCond

\* the end of the scoped_lock's block
SetterUnlock ==
  /\ SetterAt = "unlock"
  /\ cond_mutex = "setter"
  /\ cond_mutex' = "free"
  /\ setter_pc' = setter_pc + 1
  /\ UNCHANGED <<cond_waiters, setup_ready_, waiter_pc, cond_blocked, cond_spurious>>
  /\ UNCHANGED othersCond

\* setup_ready_cond_->NotifyAll(): every thread blocked on the condition wakes
NotifyAll ==
  /\ SetterAt = "NotifyAll"
  /\ waiter_pc' = [w \in CondThreads |->
       IF waiter_pc[w] = "waiting" THEN "woken" ELSE waiter_pc[w]]
  /\ setter_pc' = setter_pc + 1
  /\ UNCHANGED <<cond_waiters, setup_ready_, cond_mutex, cond_blocked, cond_spurious>>
  /\ UNCHANGED othersCond

\* a waiter takes the mutex: on entry to the wait, and again after it woke
WaitLock(w) ==
  /\ w \in cond_waiters
  /\ waiter_pc[w] \in {"start", "woken"}
  /\ cond_mutex = "free"
  /\ cond_mutex' = w
  /\ waiter_pc' = [waiter_pc EXCEPT ![w] = "locked"]
  /\ UNCHANGED <<cond_waiters, setup_ready_, setter_pc, cond_blocked, cond_spurious>>
  /\ UNCHANGED othersCond

\* the waiter reads the flag while it holds the mutex
WaitTest(w) ==
  /\ w \in cond_waiters
  /\ waiter_pc[w] = "locked"
  /\ waiter_pc' = [waiter_pc EXCEPT ![w] = IF setup_ready_ THEN "ready" ELSE "not ready"]
  /\ UNCHANGED <<cond_waiters, setup_ready_, cond_mutex, setter_pc, cond_blocked,
                 cond_spurious>>
  /\ UNCHANGED othersCond

\* the flag was false: the waiter releases the mutex and blocks, in one step
WaitBlock(w) ==
  /\ w \in cond_waiters
  /\ waiter_pc[w] = "not ready"
  /\ cond_mutex' = "free"
  /\ waiter_pc' = [waiter_pc EXCEPT ![w] = "waiting"]
  /\ cond_blocked' = cond_blocked \cup {w}
  /\ UNCHANGED <<cond_waiters, setup_ready_, setter_pc, cond_spurious>>
  /\ UNCHANGED othersCond

\* the flag was true: the waiter releases the mutex and returns
WaitReturn(w) ==
  /\ w \in cond_waiters
  /\ waiter_pc[w] = "ready"
  /\ cond_mutex' = "free"
  /\ waiter_pc' = [waiter_pc EXCEPT ![w] = "returned"]
  /\ UNCHANGED <<cond_waiters, setup_ready_, setter_pc, cond_blocked, cond_spurious>>
  /\ UNCHANGED othersCond

\* a blocked thread may wake without a notification
SpuriousWakeup(w) ==
  /\ w \in cond_waiters
  /\ waiter_pc[w] = "waiting"
  /\ w \notin cond_spurious
  /\ cond_spurious' = cond_spurious \cup {w}
  /\ waiter_pc' = [waiter_pc EXCEPT ![w] = "woken"]
  /\ UNCHANGED <<cond_waiters, setup_ready_, cond_mutex, setter_pc, cond_blocked>>
  /\ UNCHANGED othersCond

Setter == SetterLock \/ SetterStore \/ SetterUnlock \/ NotifyAll

Wait(w) == WaitLock(w) \/ WaitTest(w) \/ WaitBlock(w) \/ WaitReturn(w)

NextCond ==
  \/ SetterLock
  \/ SetterStore
  \/ SetterUnlock
  \/ NotifyAll
  \/ \E w \in CondThreads : WaitLock(w)
  \/ \E w \in CondThreads : WaitTest(w)
  \/ \E w \in CondThreads : WaitBlock(w)
  \/ \E w \in CondThreads : WaitReturn(w)
  \/ \E w \in CondThreads : SpuriousWakeup(w)

\* every thread that can take a step eventually takes one; nothing makes a
\* blocked thread wake without a notification
SpecCond ==
  /\ InitCond
  /\ [][NextCond]_vars
  /\ WF_vars(Setter)
  /\ \A w \in CondThreads : WF_vars(Wait(w))


(***************************************************************************)
(* Subsystem Chan: the send queue, the sender thread, the byte stream, the *)
(* receiver thread and the receive queue of every ordered pair of parties  *)
(***************************************************************************)
ChanParties == 0..1

ChanPairs == {pair \in ChanParties \X ChanParties : pair[1] # pair[2]}

\* the serialized messages the parties send: sequences of bytes
ChanMessages == {<<1>>, <<2, 1>>}

\* what the sender writes for a message: its size, then its bytes
Frame(message) == <<Len(message)>> \o message

\* a queue that hands out its newest element
DequeueNewest(queue) ==
  [message |-> queue[Len(queue)], rest |-> SubSeq(queue, 1, Len(queue) - 1)]

\* LockedQueue: the oldest element is taken first
Dequeue(queue) == [message |-> Head(queue), rest |-> Tail(queue)]

\* the messages of a stream of frames
RECURSIVE ParseStream(_)
ParseStream(stream) ==
  IF stream = <<>> \/ Len(stream) - 1 < Head(stream) THEN <<>>
  ELSE << SubSeq(stream, 2, Head(stream) + 1) >>
         \o ParseStream(SubSeq(stream, Head(stream) + 2, Len(stream)))

InitChan ==
  /\ IdleLife
  /\ IdleBench
  /\ IdleOp
  /\ IdleTerm
  /\ IdleCfg
  /\ IdleRun
  /\ IdleMT
  /\ IdleConv
  /\ IdleCmp
  /\ IdleCtx
  /\ IdleConn
  /\ IdleBe
  /\ IdleCond
  /\ lqueue_send_ = [pair \in ChanPairs |-> <<>>]
  /\ chan_stream = [pair \in ChanPairs |-> <<>>]
  /\ chan_header = [pair \in ChanPairs |-> <<>>]
  /\ lqueue_receive_ = [pair \in ChanPairs |-> <<>>]
  /\ chan_enqueued = <<>>
  /\ chan_delivered = <<>>

\* Handler::SendMessage: the message is put at the end of the send queue
HandlerSendMessage(pair, message) ==
  /\ pair \in DOMAIN lqueue_send_
  /\ Len(chan_enqueued) < MaxSends
  /\ lqueue_send_' = [lqueue_send_ EXCEPT ![pair] = Append(@, message)]
  /\ chan_enqueued' = Append(chan_enqueued, [pair |-> pair, message |-> message])
  /\ UNCHANGED <<chan_stream, chan_header, lqueue_receive_, chan_delivered>>
  /\ UNCHANGED othersChan

\* ActAsSender: the sender thread takes a message from the send queue and
\* writes its frame to the socket
ActAsSender(pair) ==
  /\ pair \in DOMAIN lqueue_send_
  /\ lqueue_send_[pair] # <<>>
  /\ lqueue_send_' = [lqueue_send_ EXCEPT ![pair] = Dequeue(@).rest]
  /\ chan_stream' = [chan_stream EXCEPT ![pair] = @ \o Frame(Dequeue(lqueue_send_[pair]).message)]
  /\ UNCHANGED <<chan_header, lqueue_receive_, chan_enqueued, chan_delivered>>
  /\ UNCHANGED othersChan

\* ActAsReceiver, ParseHeader: the receiver thread reads the size of the next
\* message from the socket
ParseHeader(pair) ==
  /\ pair \in DOMAIN chan_stream
  /\ chan_header[pair] = <<>>
  /\ chan_stream[pair] # <<>>
  /\ chan_header' = [chan_header EXCEPT ![pair] = << Head(chan_stream[pair]) >>]
  /\ chan_stream' = [chan_stream EXCEPT ![pair] = Tail(@)]
  /\ UNCHANGED <<lqueue_send_, lqueue_receive_, chan_enqueued, chan_delivered>>
  /\ UNCHANGED othersChan

\* ActAsReceiver, ParseBody(size): the receiver thread reads size bytes and
\* puts the message at the end of the receive queue
ParseBody(pair) ==
  /\ pair \in DOMAIN chan_stream
  /\ chan_header[pair] # <<>>
  /\ Len(chan_stream[pair]) >= chan_header[pair][1]
  /\ LET size == chan_header[pair][1]
         message == SubSeq(chan_stream[pair], 1, size)
     IN /\ chan_stream' = [chan_stream EXCEPT ![pair] = SubSeq(@, size + 1, Len(@))]
        /\ lqueue_receive_' = [lqueue_receive_ EXCEPT ![pair] = Append(@, message)]
        /\ chan_delivered' = Append(chan_delivered, [pair |-> pair, message |-> message])
  /\ chan_header' = [chan_header EXCEPT ![pair] = <<>>]
  /\ UNCHANGED <<lqueue_send_, chan_enqueued>>
  /\ UNCHANGED othersChan

ActAsReceiver(pair) == ParseHeader(pair) \/ ParseBody(pair)

NextChan ==
  \/ \E pair \in ChanPairs : \E message \in ChanMessages : HandlerSendMessage(pair, message)
  \/ \E pair \in ChanPairs : ActAsSender(pair)
  \/ \E pair \in ChanPairs : ParseHeader(pair)
  \/ \E pair \in ChanPairs : ParseBody(pair)

\* the connection is up and the sender and receiver threads keep running
SpecChan ==
  /\ InitChan
  /\ [][NextChan]_vars
  /\ \A pair \in ChanPairs : WF_vars(ActAsSender(pair)) /\ WF_vars(ActAsReceiver(pair))


(***************************************************************************)
(* Subsystem Term: Finish(), the termination messages and the end of the   *)
(* connection, for the two handlers of one connection                      *)
(***************************************************************************)
TermParties == 0..1

TermPeer(p) == 1 - p

\* received_termination_message_ = false, sent_termination_message_ = false
TerminationFlagsAtConstruction == [p \in TermParties |-> FALSE]

\* continue_communication_ = true
ContinueAtConstruction == [p \in TermParties |-> TRUE]

\* ContinueCommunication() { return continue_communication_; }
ContinueCommunication(p) == continue_communication_[p]

\* SentTerminationMessage() { sent_termination_message_ = true; }
SentTerminationMessage(flag) == TRUE

\* ReceivedTerminationMessage() { received_termination_message_ = true; }
ReceivedTerminationMessage(flag) == TRUE

\* a handler that ends its connection once its own termination message is out
ConnectionEndAfterOwnMessage(own_sent, peer_received) == own_sent

\* WaitForConnectionEnd: the connection ends once the handler has sent its
\* termination message and received the peer's
ConnectionEnd(own_sent, peer_received) == own_sent /\ peer_received

InitTerm ==
  /\ IdleLife
  /\ IdleBench
  /\ IdleOp
  /\ IdleCfg
  /\ IdleRun
  /\ IdleMT
  /\ IdleConv
  /\ IdleCmp
  /\ IdleCtx
  /\ IdleConn
  /\ IdleBe
  /\ IdleCond
  /\ IdleChan
  /\ term_pc = [p \in TermParties |-> "running"]
  /\ term_send = [p \in TermParties |-> <<>>]
  /\ term_stream = [p \in TermParties |-> <<>>]
  /\ sent_termination_message_ = TerminationFlagsAtConstruction
  /\ received_termination_message_ = TerminationFlagsAtConstruction
  /\ continue_communication_ = ContinueAtConstruction
  /\ finish_order = <<>>
  /\ term_data = {}

\* the last message of the circuit run that party p sends
TermSendData(p) ==
  /\ p \in DOMAIN term_pc
  /\ term_pc[p] = "running"
  /\ p \notin term_data
  /\ term_data' = term_data \cup {p}
  /\ term_send' = [term_send EXCEPT ![p] = Append(@, "data")]
  /\ UNCHANGED <<term_pc, term_stream, sent_termination_message_,
                 received_termination_message_, continue_communication_, finish_order>>
  /\ UNCHANGED othersTerm

\* Finish() of party p calls TerminateCommunication(): the termination message
\* is put in the send queue
TerminateCommunication(p) ==
  /\ p \in DOMAIN term_pc
  /\ term_pc[p] = "running"
  /\ term_pc' = [term_pc EXCEPT ![p] = "terminating"]
  /\ term_send' = [term_send EXCEPT ![p] = Append(@, "termination")]
  /\ finish_order' = Append(finish_order, p)
  /\ UNCHANGED <<term_stream, sent_termination_message_, received_termination_message_,
                 continue_communication_, term_data>>
  /\ UNCHANGED othersTerm

\* the sender worker of p, while ContinueCommunication(): it writes the next
\* message of the send queue and notes a termination message it has written
TermActAsSender(p) ==
  /\ p \in DOMAIN term_pc
  /\ ContinueCommunication(p)
  /\ term_send[p] # <<>>
  /\ term_send' = [term_send EXCEPT ![p] = Tail(@)]
  /\ term_stream' = [term_stream EXCEPT ![p] = Append(@, Head(term_send[p]))]
  /\ sent_termination_message_' = [sent_termination_message_ EXCEPT ![p] =
       IF Head(term_send[p]) = "termination" THEN SentTerminationMessage(@) ELSE @]
  /\ UNCHANGED <<term_pc, received_termination_message_, continue_communication_,
                 finish_order, term_data>>
  /\ UNCHANGED othersTerm

\* the receiver worker of p, while ContinueCommunication(): it reads the next
\* message of the peer and notes a termination message it has read
TermActAsReceiver(p) ==
  /\ p \in DOMAIN term_pc
  /\ ContinueCommunication(p)
  /\ term_stream[TermPeer(p)] # <<>>
  /\ term_stream' = [term_stream EXCEPT ![TermPeer(p)] = Tail(@)]
  /\ received_termination_message_' = [received_termination_message_ EXCEPT ![p] =
       IF Head(term_stream[TermPeer(p)]) = "termination"
       THEN ReceivedTerminationMessage(@) ELSE @]
  /\ UNCHANGED <<term_pc, term_send, sent_termination_message_, continue_communication_,
                 finish_order, term_data>>
  /\ UNCHANGED othersTerm

\* WaitForConnectionEnd returns: continue_communication_ = false, which stops
\* both workers
WaitForConnectionEnd(p) ==
  /\ p \in DOMAIN term_pc
  /\ term_pc[p] = "terminating"
  /\ ConnectionEnd(sent_termination_message_[p], received_termination_message_[p])
  /\ continue_communication_' = [continue_communication_ EXCEPT ![p] = FALSE]
  /\ term_pc' = [term_pc EXCEPT ![p] = "ended"]
  /\ UNCHANGED <<term_send, term_stream, sent_termination_message_,
                 received_termination_message_, finish_order, term_data>>
  /\ UNCHANGED othersTerm

TermWorkers(p) == TermActAsSender(p) \/ TermActAsReceiver(p) \/ WaitForConnectionEnd(p)

NextTerm ==
  \/ \E p \in TermParties : TermSendData(p)
  \/ \E p \in TermParties : TerminateCommunication(p)
  \/ \E p \in TermParties : TermActAsSender(p)
  \/ \E p \in TermParties : TermActAsReceiver(p)
  \/ \E p \in TermParties : WaitForConnectionEnd(p)

\* the workers and the thread in WaitForConnectionEnd keep running; when a
\* party calls Finish() is up to the party
SpecTerm ==
  /\ InitTerm
  /\ [][NextTerm]_vars
  /\ \A p \in TermParties : WF_vars(TermWorkers(p))


(***************************************************************************)
(* Subsystem Op: circuits over boolean shares.  A circuit is a tree of     *)
(* operator applications over the input shares a and b; its result is a    *)
(* sequence of wires, least significant first, each wire the bit every     *)
(* party holds.                                                            *)
(***************************************************************************)
Input(name) == [op |-> name, args |-> <<>>]

Apply(op, args) == [op |-> op, args |-> args]

\* a GE of the circuit file that keeps the order of its operands
EvaluateCircuitGESameOrder(input1, input2) ==
  Apply("~", << Apply(">", <<input1, input2>>) >>)

\* a multiplexer benchmark that passes its operands the other way round
MuxCreateOPCircuitSwapped(a, b) ==
  Apply("Mux", << Input("DummyBooleanGmwShare"), b, a >>)

\* ge/op.cpp CreateOPCircuit: CreateORCircuit(CreateEQCircuit(a, b), CreateGTCircuit(a, b))
GeCreateOPCircuit(a, b) ==
  Apply("|", << Apply("==", <<a, b>>), Apply(">", CreateGTCircuit(a, b)) >>)

\* EvaluateCircuit, GE: temp = input2 > input1; ~temp
EvaluateCircuitGE(input1, input2) ==
  Apply("~", << Apply(">", <<input2, input1>>) >>)

\* EvaluateCircuit, LE: temp = input1 > input2; ~temp
EvaluateCircuitLE(input1, input2) ==
  Apply("~", << Apply(">", <<input1, input2>>) >>)

\* EvaluateCircuit, NE: ~(input1 == input2)
EvaluateCircuitNE(input1, input2) ==
  Apply("~", << Apply("==", <<input1, input2>>) >>)

\* CreateOPCircuit of the multiplexer benchmark: selection.Mux(a, b) with the
\* dummy share as selection
MuxCreateOPCircuit(a, b) ==
  Apply("Mux", << Input("DummyBooleanGmwShare"), a, b >>)

\* EvaluateProtocol: j68 = ~(i30 > ti4); i30 = j68.Mux(i30_3, i30_2)
EvaluateProtocolMux(i30, ti4) ==
  Apply("Mux", << Apply("~", << Apply(">", <<i30, ti4>>) >>), i30, ti4 >>)

\* a selector that is an input of its own
SelectorMux(a, b) == Apply("Mux", << Input("selector"), a, b >>)

OpCircuits ==
  {"ge/op.cpp:CreateOPCircuit", "part_003:GE", "part_003:LE", "part_003:NE",
   "part_006:CreateOPCircuit", "part_000:EvaluateProtocol", "Mux"}

OpCircuit(circuit) ==
  CASE circuit = "ge/op.cpp:CreateOPCircuit" -> GeCreateOPCircuit(Input("a"), Input("b"))
    [] circuit = "part_003:GE" -> EvaluateCircuitGE(Input("a"), Input("b"))
    [] circuit = "part_003:LE" -> EvaluateCircuitLE(Input("a"), Input("b"))
    [] circuit = "part_003:NE" -> EvaluateCircuitNE(Input("a"), Input("b"))
    [] circuit = "part_006:CreateOPCircuit" -> MuxCreateOPCircuit(Input("a"), Input("b"))
    [] circuit = "part_000:EvaluateProtocol" -> EvaluateProtocolMux(Input("a"), Input("b"))
    [] circuit = "Mux" -> SelectorMux(Input("a"), Input("b"))

\* selector is read by the circuit "Mux" alone
OpTests ==
  { t \in [circuit : OpCircuits, num_parties : {2, 3}, a : ConvValues, b : ConvValues,
           selector : {0, 1}, seed : ConvSeeds] :
      t.circuit # "Mux" => t.selector = 0 }

\* the wires of a boolean share
WiresOf(share, t) == [i \in 1..MaxBitLen |-> BitOf(share, i, t)]

\* the boolean share with the given wires
ShareOf(ws, t) ==
  [scheme |-> "kBooleanGmw", public |-> <<>>,
   parts |-> [p \in ConvParties(t) |-> [i \in 1..Len(ws) |-> ws[i][p]]]]

\* DummyBooleanGmwShare(party, 1, 1): one wire, the all-zero BitVector at
\* every party
DummyBooleanGmwShare(t) == << [p \in ConvParties(t) |-> 0] >>

\* x > y: the chain of stages over the bits, least significant first
RECURSIVE GreaterThanChain(_, _, _, _)
GreaterThanChain(x, y, i, t) ==
  IF i = 0 THEN ZeroWire(t)
  ELSE GreaterThanStage(x, y, i, GreaterThanChain(x, y, i - 1, t), t)

\* x == y: every bit of x XOR y is zero
RECURSIVE EqualsChain(_, _, _, _)
EqualsChain(xs, ys, i, t) ==
  LET same == NotWire(XorWires(xs[i], ys[i], t), t)
  IN IF i = 1 THEN same ELSE AndWires(same, EqualsChain(xs, ys, i - 1, t), t, 30 + i)

\* u | v
OrWires(u, v, t, g) == XorWires(XorWires(u, v, t), AndWires(u, v, t, g), t)

\* selection.Mux(a, b), bit by bit: (selection AND (a XOR b)) XOR b
MuxWires(selection, as, bs, t) ==
  [i \in 1..Len(as) |->
     XorWires(AndWires(selection, XorWires(as[i], bs[i], t), t, 40 + i), bs[i], t)]

\* the wires of the result of a circuit
RECURSIVE EvaluateOp(_, _)
EvaluateOp(e, t) ==
  LET x == EvaluateOp(e.args[1], t)
      y == EvaluateOp(e.args[2], t)
      z == EvaluateOp(e.args[3], t)
  IN CASE e.op = "a" -> WiresOf(NewShare("kBooleanGmw", t.a, t, 20), t)
       [] e.op = "b" -> WiresOf(NewShare("kBooleanGmw", t.b, t, 21), t)
       [] e.op = "selector" ->
            << BitOf(NewShare("kBooleanGmw", t.selector, t, 22), 1, t) >>
       [] e.op = "DummyBooleanGmwShare" -> DummyBooleanGmwShare(t)
       [] e.op = ">" -> << GreaterThanChain(ShareOf(x, t), ShareOf(y, t), Len(x), t) >>
       [] e.op = "==" -> << EqualsChain(x, y, Len(x), t) >>
       [] e.op = "|" -> << OrWires(x[1], y[1], t, 50) >>
       [] e.op = "~" -> [i \in 1..Len(x) |-> NotWire(x[i], t)]
       [] e.op = "Mux" -> MuxWires(x[1], y, z, t)

InitOp ==
  /\ IdleLife
  /\ IdleBench
  /\ IdleCfg
  /\ IdleRun
  /\ IdleMT
  /\ IdleConv
  /\ IdleCmp
  /\ IdleCtx
  /\ IdleConn
  /\ IdleBe
  /\ IdleCond
  /\ IdleChan
  /\ IdleTerm
  /\ op_test \in OpTests
  /\ op_pc = "build"
  /\ op_circuit = <<>>
  /\ op_result = <<>>
  /\ op_output = <<>>

\* the harness creates the input shares and builds the circuit over them
OpBuildCircuit ==
  /\ op_pc = "build"
  /\ op_circuit' = OpCircuit(op_test.circuit)
  /\ op_pc' = "Run"
  /\ UNCHANGED <<op_test, op_result, op_output>>
  /\ UNCHANGED othersOp

\* party->Run(): the gates of the circuit are evaluated
OpRun ==
  /\ op_pc = "Run"
  /\ op_result' = EvaluateOp(op_circuit, op_test)
  /\ op_pc' = "Out"
  /\ UNCHANGED <<op_test, op_circuit, op_output>>
  /\ UNCHANGED othersOp

\* the output gate reveals the result
OpEvaluateOutput ==
  /\ op_pc = "Out"
  /\ op_output' = << FromBits([i \in 1..Len(op_result) |-> WireValue(op_result[i], op_test)]) >>
  /\ op_pc' = "returned"
  /\ UNCHANGED <<op_test, op_circuit, op_result>>
  /\ UNCHANGED othersOp

NextOp ==
  \/ OpBuildCircuit
  \/ OpRun
  \/ OpEvaluateOutput

SpecOp == InitOp /\ [][NextOp]_vars


(***************************************************************************)
(* Subsystem Bench.  main of the micro-benchmark after ParseProgramOptions *)
(* returned: party_input, the protocol lookup, EvaluateProtocol and the    *)
(* catch clause.  CreateParty is taken to succeed here; its failures are   *)
(* those of subsystem Cfg.  Indices of the vectors are the code's, from 0; *)
(* the sequences of the model hold element i at i + 1.                     *)
(***************************************************************************)
BenchParties == 0..1

\* the values of --protocol: the three of protocol_conversion, the fourth
\* name CreateShare accepts, and a name nothing accepts
BenchProtocols == {"a", "b", "y", "default", "x"}

\* rand() % kTruncate
BenchValues == 0..1

\* main: std::map protocol_conversion{{"a", ..}, {"b", ..}, {"y", ..}}
protocol_conversion == {"a", "b", "y"}

\* a default-constructed SecureUnsignedInteger: it holds no share
DefaultConstructed == [share |-> "null", of |-> 0]

\* op_result.Out() of the circuit over p1[i], p2[i]
Out(i) == [share |-> "Out", of |-> i]

\* std::vector<mo::SecureUnsignedInteger> output(party_input.size())
OutputAtConstruction(size) == [i \in 1..size |-> DefaultConstructed]

\* CreateShare: party->In<..>(input, party_id) under the protocol's name, the
\* owner id it passes to In(); std::invalid_argument for any other name
CreateShareIn(protocol, input, party_id) ==
  IF protocol \in {"a", "b", "default", "y"}
  THEN [threw |-> FALSE, owner |-> party_id, input |-> input]
  ELSE [threw |-> TRUE, owner |-> party_id, input |-> input]

\* main's only handler: catch (std::runtime_error& e) { ...; return
\* EXIT_FAILURE; }.  Any other exception leaves main and std::terminate runs.
MainCatch(e) == IF e = "runtime_error" THEN "EXIT_FAILURE" ELSE "terminate"

InitBench ==
  /\ IdleLife
  /\ IdleRun
  /\ IdleMT
  /\ IdleConv
  /\ IdleCmp
  /\ IdleCtx
  /\ IdleConn
  /\ IdleBe
  /\ IdleCond
  /\ IdleChan
  /\ IdleTerm
  /\ IdleOp
  /\ IdleCfg
  /\ bench_test \in [protocol : BenchProtocols, num_paral : 0..MaxParal]
  /\ bench_pc = [p \in BenchParties |-> "main"]
  /\ party_input = [p \in BenchParties |-> <<>>]
  /\ bench_read = [p \in BenchParties |-> {}]
  /\ in_owner = [p \in BenchParties |-> <<>>]
  /\ output = [p \in BenchParties |-> <<>>]
  /\ as_read = [p \in BenchParties |-> <<>>]
  /\ bench_thrown = [p \in BenchParties |-> "none"]

\* std::vector<uint32_t> party_input(num_paral); for (i < party_input.size())
\* party_input[i] = rand() % kTruncate;
FillPartyInput(p) ==
  /\ bench_pc[p] = "main"
  /\ \E values \in [1..bench_test.num_paral -> BenchValues] :
       party_input' = [party_input EXCEPT ![p] = values]
  /\ bench_read' = [bench_read EXCEPT ![p] = @ \cup 0..(bench_test.num_paral - 1)]
  /\ bench_pc' = [bench_pc EXCEPT ![p] = "print"]
  /\ UNCHANGED <<bench_test, in_owner, output, as_read, bench_thrown>>
  /\ UNCHANGED othersBench

\* std::cout << "party_input[1]: " << party_input[1].  operator[] past the end
\* of the vector is undefined: the read yields whatever lies there, or the
\* process is killed
PrintPartyInput(p) ==
  /\ bench_pc[p] = "print"
  /\ bench_read' = [bench_read EXCEPT ![p] = @ \cup {1}]
  /\ IF 1 < Len(party_input[p])
     THEN bench_pc' = [bench_pc EXCEPT ![p] = "find"]
     ELSE \E outcome \in {"find", "crashed"} :
            bench_pc' = [bench_pc EXCEPT ![p] = outcome]
  /\ UNCHANGED <<bench_test, party_input, in_owner, output, as_read, bench_thrown>>
  /\ UNCHANGED othersBench

\* protocol_conversion.find(protocol_string): CreateParty and EvaluateProtocol
\* when found, else throw std::invalid_argument("Invalid MPC protocol")
FindProtocol(p) ==
  /\ bench_pc[p] = "find"
  /\ IF bench_test.protocol \in protocol_conversion
     THEN /\ bench_pc' = [bench_pc EXCEPT ![p] = "EvaluateProtocol"]
          /\ UNCHANGED bench_thrown
     ELSE /\ bench_pc' = [bench_pc EXCEPT ![p] = "catch"]
          /\ bench_thrown' = [bench_thrown EXCEPT ![p] = "invalid_argument"]
  /\ UNCHANGED <<bench_test, party_input, bench_read, in_owner, output, as_read>>
  /\ UNCHANGED othersBench

\* EvaluateProtocol: the three vectors are constructed with party_input.size()
\* elements
EvaluateProtocolBegin(p) ==
  /\ bench_pc[p] = "EvaluateProtocol"
  /\ output' = [output EXCEPT ![p] = OutputAtConstruction(Len(party_input[p]))]
  /\ bench_pc' = [bench_pc EXCEPT ![p] = "CreateShare"]
  /\ UNCHANGED <<bench_test, party_input, bench_read, in_owner, as_read, bench_thrown>>
  /\ UNCHANGED othersBench

\* one iteration of the first loop: p1[i] = CreateShare(party, protocol,
\* party_input[i], party_id); p2[i] = CreateShare(party, protocol, 0, party_id)
CreateShares(p) ==
  /\ bench_pc[p] = "CreateShare"
  /\ LET i == Len(in_owner[p]) \div 2 IN
     IF i >= Len(party_input[p])
     THEN /\ bench_pc' = [bench_pc EXCEPT ![p] = "CreateOPCircuit"]
          /\ UNCHANGED <<bench_read, in_owner, bench_thrown>>
     ELSE LET p1 == CreateShareIn(bench_test.protocol, party_input[p][i + 1], p)
              p2 == CreateShareIn(bench_test.protocol, 0, p)
          IN /\ bench_read' = [bench_read EXCEPT ![p] = @ \cup {i}]
             /\ IF p1.threw \/ p2.threw
                THEN /\ bench_thrown' = [bench_thrown EXCEPT ![p] = "invalid_argument"]
                     /\ bench_pc' = [bench_pc EXCEPT ![p] = "catch"]
                     /\ UNCHANGED in_owner
                ELSE /\ in_owner' = [in_owner EXCEPT ![p] = @ \o <<p1.owner, p2.owner>>]
                     /\ UNCHANGED <<bench_pc, bench_thrown>>
  /\ UNCHANGED <<bench_test, party_input, output, as_read>>
  /\ UNCHANGED othersBench

\* one iteration of the second loop: output.push_back(op_result.Out())
CreateOutput(p) ==
  /\ bench_pc[p] = "CreateOPCircuit"
  /\ LET size == Len(party_input[p])
         i == Len(output[p]) - size
     IN IF i >= size
        THEN /\ bench_pc' = [bench_pc EXCEPT ![p] = "Run"]
             /\ UNCHANGED output
        ELSE /\ output' = [output EXCEPT ![p] = Append(@, Out(i))]
             /\ UNCHANGED bench_pc
  /\ UNCHANGED <<bench_test, party_input, bench_read, in_owner, as_read, bench_thrown>>
  /\ UNCHANGED othersBench

\* party->Run()
BenchRun(p) ==
  /\ bench_pc[p] = "Run"
  /\ bench_pc' = [bench_pc EXCEPT ![p] = "Finish"]
  /\ UNCHANGED <<bench_test, party_input, bench_read, in_owner, output, as_read,
                 bench_thrown>>
  /\ UNCHANGED othersBench

\* party->Finish()
BenchFinish(p) ==
  /\ bench_pc[p] = "Finish"
  /\ bench_pc' = [bench_pc EXCEPT ![p] = "As"]
  /\ UNCHANGED <<bench_test, party_input, bench_read, in_owner, output, as_read,
                 bench_thrown>>
  /\ UNCHANGED othersBench

\* one iteration of: for (mo::SecureUnsignedInteger x : output) std::cout <<
\* x.As<std::uint32_t>().  As<> of an integer that holds no share dereferences
\* a null pointer: undefined, the loop goes on or the process is killed
ReadOutput(p) ==
  /\ bench_pc[p] = "As"
  /\ LET k == Len(as_read[p]) + 1 IN
     IF k > Len(output[p])
     THEN /\ bench_pc' = [bench_pc EXCEPT ![p] = "EXIT_SUCCESS"]
          /\ UNCHANGED as_read
     ELSE /\ as_read' = [as_read EXCEPT ![p] = Append(@, output[p][k])]
          /\ IF output[p][k] = DefaultConstructed
             THEN \E outcome \in {"As", "crashed"} :
                    bench_pc' = [bench_pc EXCEPT ![p] = outcome]
             ELSE UNCHANGED bench_pc
  /\ UNCHANGED <<bench_test, party_input, bench_read, in_owner, output, bench_thrown>>
  /\ UNCHANGED othersBench

\* the exception meets main's handlers
BenchCatch(p) ==
  /\ bench_pc[p] = "catch"
  /\ bench_pc' = [bench_pc EXCEPT ![p] = MainCatch(bench_thrown[p])]
  /\ UNCHANGED <<bench_test, party_input, bench_read, in_owner, output, as_read,
                 bench_thrown>>
  /\ UNCHANGED othersBench

NextBench ==
  \/ \E p \in BenchParties : FillPartyInput(p)
  \/ \E p \in BenchParties : PrintPartyInput(p)
  \/ \E p \in BenchParties : FindProtocol(p)
  \/ \E p \in BenchParties : EvaluateProtocolBegin(p)
  \/ \E p \in BenchParties : CreateShares(p)
  \/ \E p \in BenchParties : CreateOutput(p)
  \/ \E p \in BenchParties : BenchRun(p)
  \/ \E p \in BenchParties : BenchFinish(p)
  \/ \E p \in BenchParties : ReadOutput(p)
  \/ \E p \in BenchParties : BenchCatch(p)

SpecBench == InitBench /\ [][NextBench]_vars

(***************************************************************************)
(* main's handler around the command line and CreateParty                  *)
(***************************************************************************)
\* the exception that left ParseProgramOptions or CreateParty meets main's
\* catch (std::runtime_error&).  boost::bad_lexical_cast is a std::bad_cast.
\* The class of what SetupConnections throws is not part of the sources: it
\* is caught or not.
CfgCatch ==
  /\ pc = "catch"
  /\ IF thrown = "connection_error"
     THEN \E e \in {"runtime_error", thrown} : pc' = MainCatch(e)
     ELSE pc' = MainCatch(thrown)
  /\ UNCHANGED <<prog, user_options, party_index, parties_configuration, thrown,
                 connections, party, peers_reachable, run_phase>>
  /\ UNCHANGED othersCfg

NextCfgMain ==
  \/ ParseProgramOptions
  \/ CreatePartyBegin
  \/ CreatePartyLoop
  \/ SetupConnections
  \/ ConstructParty
  \/ RunSetupPhase
  \/ RunOnlinePhase
  \/ CfgCatch

\* the runs of main from the command line to its exit status
SpecCfgMain == InitCfg /\ [][NextCfgMain]_vars


(***************************************************************************)
(* Subsystem Life.  A harness creates a Party, builds one circuit on it    *)
(* with In, the operators and Out, runs it, reads the outputs and finishes *)
(* it; the circuit-file runner does so once per round.  The log keeps, for *)
(* every Party instance, the calls made on it.                             *)
(***************************************************************************)
LifePrograms == {"part_007", "part_003"}

\* the circuit files: a gate per line, named by its type
LifeCircuits ==
  { <<"INPUT0", "INPUT1", "ADD", "OUTPUT">>,
    <<"INPUT0", "INPUT1", "GT", "OUTPUT", "EQ", "OUTPUT">> }

Building == {"In", "Operator", "Out"}

RECURSIVE Repeat(_, _)
Repeat(x, n) == IF n <= 0 THEN <<>> ELSE <<x>> \o Repeat(x, n - 1)

\* ComputeInput: In(input, i) for i = 0, 1, then CreateOPCircuit once and
\* once more for every j in [1, num_paral)
ComputeInput(num_paral) ==
  <<"In", "In", "Operator">> \o Repeat("Operator", num_paral - 1)

\* EvaluateProtocol of the operator benchmark: ComputeInput, output.Out(),
\* party->Run(), output.As<..>(), party->Finish()
EvaluateProtocolCalls(num_paral) ==
  ComputeInput(num_paral) \o <<"Out", "Run", "As", "Finish">>

\* the call EvaluateCircuit makes for a gate of the circuit file
GateCall(g_type) ==
  IF g_type \in {"INPUT0", "INPUT1"} THEN "In"
  ELSE IF g_type = "OUTPUT" THEN "Out" ELSE "Operator"

\* EvaluateCircuit: a call per gate of the file, party->Run(),
\* party->Finish(), then x.As<std::uint32_t>() for every x of outputs
EvaluateCircuitCalls(circuit) ==
  [k \in 1..Len(circuit) |-> GateCall(circuit[k])]
    \o <<"Run", "Finish">>
    \o Repeat("As", Cardinality({k \in 1..Len(circuit) : circuit[k] = "OUTPUT"}))

\* the calls of the harness on the Party of one round
CallsOfRound(t) ==
  IF t.program = "part_003" THEN EvaluateCircuitCalls(t.circuit)
  ELSE EvaluateProtocolCalls(t.num_paral)

\* the rounds of the harness: num-round of them in the circuit-file runner,
\* one in the operator benchmark
Rounds(t) == IF t.program = "part_003" THEN t.num_round ELSE 1

\* a main that creates its Party before the loop over the rounds
PartyCreatedBeforeLoop(r) == 0

\* main's loop: encrypto::motion::PartyPointer party{CreateParty(user_options)}
\* inside the body, a new Party instance for round r
PartyOfRound(r) == r

LifeTests ==
  [program : {"part_003"}, circuit : LifeCircuits, num_round : 0..MaxRound,
   num_paral : {1}]
    \cup [program : {"part_007"}, circuit : {<<>>}, num_round : {1},
          num_paral : 0..MaxParal]

InitLife ==
  /\ IdleRun
  /\ IdleMT
  /\ IdleConv
  /\ IdleCmp
  /\ IdleCtx
  /\ IdleConn
  /\ IdleBe
  /\ IdleCond
  /\ IdleChan
  /\ IdleTerm
  /\ IdleOp
  /\ IdleBench
  /\ IdleCfg
  /\ life_test \in LifeTests
  /\ life_pc = "main"
  /\ life_round = 0
  /\ life_step = 0
  /\ life_log = [i \in 0..(Rounds(life_test) - 1) |-> <<>>]

\* the next call of the round, "return" after the last
NextCall ==
  IF life_pc = "round" /\ life_step <= Len(CallsOfRound(life_test))
  THEN CallsOfRound(life_test)[life_step]
  ELSE IF life_pc = "round" THEN "return" ELSE "none"

\* the call is made on the Party of the round
Logged(call) ==
  /\ life_log' = [life_log EXCEPT ![PartyOfRound(life_round)] =
                    Append(@, [call |-> call, round |-> life_round])]
  /\ life_step' = life_step + 1
  /\ UNCHANGED <<life_test, life_pc, life_round>>
  /\ UNCHANGED othersLife

\* for (r < nround): CreateParty(user_options); past the last round main
\* returns EXIT_SUCCESS
LifeCreateParty ==
  /\ life_pc = "main"
  /\ IF life_round < Rounds(life_test)
     THEN /\ life_pc' = "round"
          /\ life_step' = 1
     ELSE /\ life_pc' = "EXIT_SUCCESS"
          /\ UNCHANGED life_step
  /\ UNCHANGED <<life_test, life_round, life_log>>
  /\ UNCHANGED othersLife

\* party->In<..>(..), an operator on shares, or Out()
LifeBuild ==
  /\ NextCall \in Building
  /\ Logged(NextCall)

\* party->Run()
LifeRun ==
  /\ NextCall = "Run"
  /\ Logged("Run")

\* party->Finish()
LifeFinish ==
  /\ NextCall = "Finish"
  /\ Logged("Finish")

\* As<..>() on an output share
LifeAs ==
  /\ NextCall = "As"
  /\ Logged("As")

\* the harness function returns; the round's party goes out of scope
LifeReturn ==
  /\ NextCall = "return"
  /\ life_round' = life_round + 1
  /\ life_pc' = "main"
  /\ UNCHANGED <<life_test, life_step, life_log>>
  /\ UNCHANGED othersLife

NextLife ==
  \/ LifeCreateParty
  \/ LifeBuild
  \/ LifeRun
  \/ LifeFinish
  \/ LifeAs
  \/ LifeReturn

SpecLife == InitLife /\ [][NextLife]_vars


(***************************************************************************)
(* What the claims about the command line speak of, stated on the raw      *)
(* argument and not through the code's regular expression.                 *)
(***************************************************************************)
Commas(s) == {k \in 1..Len(s) : s[k] = ","}
FirstComma(s) == CHOOSE k \in Commas(s) : \A j \in Commas(s) : k <= j
LastComma(s) == CHOOSE k \in Commas(s) : \A j \in Commas(s) : j <= k
IdField(s) == IF Commas(s) = {} THEN s ELSE SubSeq(s, 1, FirstComma(s) - 1)
HostField(s) == SubSeq(s, FirstComma(s) + 1, LastComma(s) - 1)
PortField(s) == SubSeq(s, LastComma(s) + 1, Len(s))

IsNumber(s) == s # <<>> /\ AllDigits(s)

\* the id the argument names lies in [0, n)
PeerIdInRange(s, n) == IsNumber(IdField(s)) /\ DecimalValue(IdField(s)) < n

\* id,host,port: three fields, a party id, a host that is not empty (a comma in
\* it makes a fourth field), a port that is a number of the 16-bit range
WellFormedPeer(s, n) ==
  /\ Cardinality(Commas(s)) = 2
  /\ PeerIdInRange(s, n)
  /\ HostField(s) # <<>>
  /\ IsNumber(PortField(s))
  /\ DecimalValue(PortField(s)) <= UInt16Max

NumParties == Len(user_options.parties)

SomePeerMalformed ==
  \E k \in 1..NumParties : ~WellFormedPeer(user_options.parties[k], NumParties)

SomeIdOutOfRange ==
  \/ user_options.my_id \notin 0..(NumParties - 1)
  \/ \E k \in 1..NumParties : ~PeerIdInRange(user_options.parties[k], NumParties)

BeforeConnections ==
  /\ connections = 0
  /\ ~party
  /\ pc \in {"ParseProgramOptions", "CreateParty", "CreatePartyLoop", "catch"}

\* C7: a --parties list with an entry that violates the id,host,port pattern
\* (id no party id, empty host, comma in the host, port no number of the 16-bit
\* range) never reaches TcpSetupHelper::SetupConnections, and the run ends with
\* an exception thrown.
C7_MalformedPeerRejected ==
  SomePeerMalformed =>
    /\ BeforeConnections
    /\ (pc = "catch" => thrown \in {"runtime_error", "bad_lexical_cast"})

\* a port of five digits past 65535 passed the regular expression and was
\* rejected by the cast inside CreateParty
C7_Witness ==
  /\ SomePeerMalformed
  /\ pc = "catch"
  /\ thrown = "bad_lexical_cast"
  /\ party_index >= 1
  /\ connections = 0

\* C8: when my id or a listed peer id lies outside [0, numParties), no
\* connection is set up, no Party is constructed and the run ends with an
\* exception: the configuration error std::runtime_error unless a port that
\* does not fit 16 bits made a cast throw first.
C8_IdOutOfRangeRejected ==
  SomeIdOutOfRange =>
    /\ BeforeConnections
    /\ (pc = "catch" => thrown \in {"runtime_error", "bad_lexical_cast"})
    /\ (pc = "catch" /\ thrown = "bad_lexical_cast" =>
          \E k \in 1..NumParties :
            DecimalValue(PortField(user_options.parties[k])) > UInt16Max)

\* CreateParty's loop threw std::runtime_error for the id of the second entry
C8_Witness ==
  /\ SomeIdOutOfRange
  /\ user_options.my_id \in 0..(NumParties - 1)
  /\ pc = "catch"
  /\ thrown = "runtime_error"
  /\ party_index = 2
  /\ connections = 0
  /\ ~party

(***************************************************************************)
(* What the claims about a run of the tests speak of                       *)
(***************************************************************************)
Returned(p) == harness[p] \in {"returned", "finished"}

\* the values on the wires of s_out, the share of the last gate built
Revealed(p) == wires[p][Len(gates[p])]

RECURSIVE PlainSum(_, _)
PlainSum(f, S) ==
  IF S = {} THEN 0 ELSE LET x == CHOOSE x \in S : TRUE IN f[x] + PlainSum(f, S \ {x})

RECURSIVE PlainXor(_, _)
PlainXor(f, S) ==
  IF S = {} THEN 0
  ELSE LET x == CHOOSE x \in S : TRUE
           rest == PlainXor(f, S \ {x})
       IN IF f[x] = rest THEN 0 ELSE 1

InputOf(w, k) == [j \in Parties(test) |-> GlobalInput(test, j)[w][k]]

OutputOwnerReturned ==
  /\ test.name # "none"
  /\ Returned(test.output_owner)

\* C1: in an InputOutput test, arithmetic or boolean, the output wire the
\* output owner reads after Run returned holds exactly the value the input
\* owner passed to IN, on every SIMD position.
C1_InputOutputIdentity ==
  (OutputOwnerReturned /\ test.name = "InputOutput")
    => Revealed(test.output_owner) = GlobalInput(test, test.input_owner)

\* three parties, the input owner is not the output owner, a SIMD vector of
\* values that are not the dummy, and the output owner has read the value
C1_Witness ==
  /\ OutputOwnerReturned
  /\ test.name = "InputOutput"
  /\ test.protocol = "ArithmeticGMW"
  /\ test.num_parties = 3
  /\ test.simd = MaxSimd
  /\ test.input_owner # test.output_owner
  /\ Revealed(test.output_owner) # Dummy(test)
  /\ Revealed(test.output_owner) = GlobalInput(test, test.input_owner)

\* C2: in an Addition test the value revealed to the output owner after Run
\* returned is the sum of the inputs of all parties modulo 2^T, on every SIMD
\* position.
C2_AdditiveHomomorphism ==
  (OutputOwnerReturned /\ test.name = "Addition")
    => \A k \in 1..test.simd :
         Revealed(test.output_owner)[1][k]
           = PlainSum(InputOf(1, k), Parties(test)) % (2 ^ test.T)

\* three parties whose inputs add up to more than the type holds: the
\* revealed sum wrapped around
C2_Witness ==
  /\ OutputOwnerReturned
  /\ test.name = "Addition"
  /\ test.num_parties = 3
  /\ PlainSum(InputOf(1, 1), Parties(test)) >= 2 ^ test.T
  /\ Revealed(test.output_owner)[1][1]
       = PlainSum(InputOf(1, 1), Parties(test)) - 2 * (2 ^ test.T)

\* C3: in a XOR test the value revealed to the output owner after Run returned
\* is, on every wire and every SIMD position, the XOR of that wire and
\* position of the inputs of all parties.
C3_XorHomomorphism ==
  (OutputOwnerReturned /\ test.name = "XOR")
    => \A w \in 1..test.wires : \A k \in 1..test.simd :
         Revealed(test.output_owner)[w][k] = PlainXor(InputOf(w, k), Parties(test))

\* three parties, a share of several wires, and two wires of the output differ
C3_Witness ==
  /\ OutputOwnerReturned
  /\ test.name = "XOR"
  /\ test.num_parties = 3
  /\ test.wires = MaxWires
  /\ Revealed(test.output_owner)[1] # Revealed(test.output_owner)[MaxWires]
  /\ \A w \in 1..test.wires : \A k \in 1..test.simd :
       Revealed(test.output_owner)[w][k] = PlainXor(InputOf(w, k), Parties(test))

(***************************************************************************)
(* What the claim about the multiplication triples speaks of               *)
(***************************************************************************)
AllRunsReturned ==
  /\ mt_test.name # "none"
  /\ \A p \in MTParties(mt_test) : mt_harness[p] \in {"returned", "finished"}

\* C4: after the Run of every party returned, the shares a, b and c of all
\* parties combined (XOR for binary triples, sum modulo 2^8 for integer
\* triples) satisfy c = a * b at every triple position.
C4_TripleConsistency ==
  AllRunsReturned
    => \A k \in 1..NumMTs(mt_test) :
         GetAllCombined("c")[k]
           = (GetAllCombined("a")[k] * GetAllCombined("b")[k]) % MTModulus(mt_test)

\* three parties, binary triples, every run returned: a position where
\* a = b = c = 1 and one where c = 0, and the c shares of the parties differ
C4_Witness ==
  /\ AllRunsReturned
  /\ mt_test.name = "Binary"
  /\ mt_test.num_parties = 3
  /\ \E k \in 1..NumMTs(mt_test) :
       GetAllCombined("a")[k] = 1 /\ GetAllCombined("b")[k] = 1 /\ GetAllCombined("c")[k] = 1
  /\ \E k \in 1..NumMTs(mt_test) : GetAllCombined("c")[k] = 0
  /\ mt_provider[0].c # mt_provider[1].c
  /\ mt_provider[1].c # mt_provider[2].c

(***************************************************************************)
(* What the claim about conversions speaks of                              *)
(***************************************************************************)
\* the letter of a scheme in the names of the conversions of a program
SchemeLetter(program, X) ==
  IF program = "common_main"
  THEN CASE X = "kArithmeticGmw" -> "a" [] X = "kBooleanGmw" -> "b" [] X = "kBmr" -> "y"
  ELSE CASE X = "kArithmeticGmw" -> "A" [] X = "kBooleanGmw" -> "B" [] X = "kBmr" -> "Y"

\* the name of the conversion from X to Y
ConversionName(program, X, Y) ==
  SchemeLetter(program, X) \o "2" \o SchemeLetter(program, Y)

\* the protocol options that select scheme X
ProtocolsOf(program, X) ==
  IF program = "common_main"
  THEN CASE X = "kArithmeticGmw" -> {"a"} [] X = "kBooleanGmw" -> {"b", "default"}
         [] X = "kBmr" -> {"y"}
  ELSE CASE X = "kArithmeticGmw" -> {"0"} [] X = "kBooleanGmw" -> {"1"} [] X = "kBmr" -> {"2"}

\* the circuit shares a value in X, converts X to Y and Y back to X
RoundTrip(X, Y) ==
  /\ conv_test.program # "none"
  /\ conv_test.protocol \in ProtocolsOf(conv_test.program, X)
  /\ conv_test.first = ConversionName(conv_test.program, X, Y)
  /\ conv_test.second = ConversionName(conv_test.program, Y, X)

\* the circuit shares a value in X and applies two conversions to X to it
SameScheme(X) ==
  /\ conv_test.program # "none"
  /\ conv_test.protocol \in ProtocolsOf(conv_test.program, X)
  /\ \E Z \in Schemes \ {X} : conv_test.first = ConversionName(conv_test.program, Z, X)
  /\ \E Z \in Schemes \ {X} : conv_test.second = ConversionName(conv_test.program, Z, X)

RevealsInputIn(X, Y) ==
  /\ conv_pc # "invalid_argument"
  /\ conv_pc = "returned" =>
       /\ conv_shares[2].scheme = Y
       /\ conv_shares[3].scheme = X
       /\ conv_output = conv_test.input

Bit(condition) == IF condition THEN 1 ELSE 0

IsGreaterThanCircuit == cmp_test.circuit \in {"ge/op.cpp:CreateGTCircuit", "part_003:GT"}

IsLessThanCircuit == cmp_test.circuit \in {"lt/op.cpp:CreateOPCircuit", "part_003:LT"}

\* C6: a greater-than circuit over shares of a and b reveals 1 exactly when
\* a > b as unsigned integers and 0 otherwise; a less-than circuit, built as
\* b > a, reveals 1 exactly when a < b.
C6_ComparisonCorrect ==
  cmp_pc = "returned" =>
    /\ IsGreaterThanCircuit => cmp_output = Bit(cmp_test.a > cmp_test.b)
    /\ IsLessThanCircuit => cmp_output = Bit(cmp_test.a < cmp_test.b)

\* the less-than circuit of lt/op.cpp revealed 1 for a < b whose lowest bits
\* are in the opposite order
C6_Witness ==
  /\ cmp_pc = "returned"
  /\ cmp_test.circuit = "lt/op.cpp:CreateOPCircuit"
  /\ cmp_test.a = 1
  /\ cmp_test.b = 2 ^ MaxBitLen - 2
  /\ cmp_output = 1

(***************************************************************************)
(* What the claim about the Context speaks of                              *)
(***************************************************************************)
\* an address that is a dotted quad but for one character, which is
\* neither a digit nor a dot
CorruptedDottedQuad(s) ==
  \E pos \in 1..Len(s) :
    /\ s[pos] \notin Digits \cup {"."}
    /\ \E c \in Digits \cup {"."} : IsValidIP([s EXCEPT ![pos] = c])

IsNetworkConnectionTest ==
  conn_test.name \in {"NetworkConnection_OpenMP", "NetworkConnection_ManualThreads",
                      "NetworkConnection_LocalPartiesFromStaticFunction"}

\* every party calls Connect, and of every two parties one holds a Server and
\* the other a Client context on one port, which no other two parties use
Paired ==
  /\ conn_test.name # "none"
  /\ conn_test.absent = {}
  /\ \A p \in ConnParties(conn_test) : \A q \in ConnParties(conn_test) \ {p} :
       /\ {conn_test.contexts[p][q].role, conn_test.contexts[q][p].role} = {"Server", "Client"}
       /\ conn_test.contexts[p][q].port = conn_test.contexts[q][p].port
       /\ \A r \in ConnParties(conn_test) : \A s \in ConnParties(conn_test) \ {r} :
            conn_test.contexts[r][s].port = conn_test.contexts[p][q].port => {r, s} = {p, q}

AllConnected ==
  /\ \A p \in ConnParties(conn_test) :
       /\ conn_pc[p] = "returned"
       /\ \A q \in ConnParties(conn_test) \ {p} : IsConnected(p, q)
  /\ all_connected = "true"

C11_UnreachablePeerNoEvaluation ==
  ~peers_reachable =>
    /\ run_phase = "none"
    /\ ~party
    /\ pc \notin {"Party", "EvaluateProtocol", "Run", "Finish"}
    /\ (connections > 0 => pc = "catch" /\ thrown = "connection_error")

\* the command line was accepted, SetupConnections was called and failed
C11_Witness ==
  /\ ~peers_reachable
  /\ connections = 1
  /\ pc = "catch"
  /\ thrown = "connection_error"
  /\ party_index = Len(user_options.parties) + 1
  /\ run_phase = "none"

(***************************************************************************)
(* The circuit run                                                         *)
(***************************************************************************)
AllOnlineDone(p) ==
  \A g \in BeGates(be_test) : IsGate(be_test, g) => gate_state[p][g] = "OnlineDone"

RunReturned(p) == be_pc[p] = "returned"

RunOver(p) == be_pc[p] \in {"returned", "cleared"}

OnlineStarted(p, g) ==
  gate_state[p][g] \in {"OnlinePending", "OnlineDone"} \/ Sent(p, g)

SetupCompleted(p, g) == Marked(wire_log[p][g], "setup_ready")

OnlineCompleted(p, g) == Marked(wire_log[p][g], "online_ready")

Running(p) == be_pc[p] \in {"Run", "returned"}

\* the position of the first entry of log that marks the wire ready
FirstMark(log, what) ==
  CHOOSE i \in DOMAIN log :
    log[i].what = what /\ \A j \in 1..(i - 1) : log[j].what # what

\* C13: at a party whose online-after-setup option is true, no gate has started
\* its online evaluation while the setup of some registered gate is not
\* completed; whatever the option, a gate whose online evaluation is completed
\* completed its setup before.
C13_PhaseOrdering ==
  \A p \in BeParties : Running(p) =>
    \A g \in BeGates(be_test) : IsGate(be_test, g) =>
      /\ (be_test.online_after_setup[p] /\ OnlineStarted(p, g) =>
            \A h \in BeGates(be_test) : IsGate(be_test, h) => SetupCompleted(p, h))
      /\ (OnlineCompleted(p, g) =>
            /\ SetupCompleted(p, g)
            /\ FirstMark(wire_log[p][g], "setup_ready") < FirstMark(wire_log[p][g], "online_ready"))

\* party 0, with the option, is in its online phase after every setup; party
\* 1, without it, has completed an input gate while its output gate still
\* waits for its setup
C13_Witness ==
  /\ be_test.circuit = "diamond"
  /\ be_test.online_after_setup[0] /\ ~be_test.online_after_setup[1]
  /\ be_pc[0] = "Run" /\ be_pc[1] = "Run"
  /\ gate_state[0][5] = "OnlinePending" /\ gate_state[0][1] = "OnlineDone"
  /\ gate_state[1][2] = "OnlineDone" /\ gate_state[1][6] = "SetupPending"


(***************************************************************************)
(* The reference run: every gate evaluated in creation order, setup phase  *)
(* first, as a function of the test alone.                                 *)
(***************************************************************************)
RECURSIVE ReferenceShare(_, _, _)
ReferenceShare(t, p, g) ==
  LET m == BeModulus(t)
      gate == BeCircuit(t)[g]
      x(q) == ReferenceShare(t, q, gate.parents[1])
      y(q) == ReferenceShare(t, q, gate.parents[2])
  IN CASE gate.type = "In" -> BeInputShare(t, g, p)
       [] gate.type = "Dummy" -> 0
       [] gate.type = "Add" -> (x(p) + y(p)) % m
       [] gate.type = "Sub" -> (x(p) + m - y(p)) % m
       [] gate.type = "Mul" ->
            LET d == (x(0) + x(1) + 2 * m - Triple(t, g, 0).a - Triple(t, g, 1).a) % m
                e == (y(0) + y(1) + 2 * m - Triple(t, g, 0).b - Triple(t, g, 1).b) % m
                mt == Triple(t, g, p)
            IN (mt.c + d * mt.b + e * mt.a + (IF p = 0 THEN d * e ELSE 0)) % m
       [] gate.type = "Out" -> (x(0) + x(1)) % m

OutputGates(t) == {g \in BeGates(t) : BeCircuit(t)[g].type = "Out"}

OnlineAfterSetupEverywhere(t) ==
  [t EXCEPT !.online_after_setup = [q \in BeParties |-> TRUE]]

\* C14: whatever online-after-setup option each party runs with, the values
\* it reads from the output wires after Run() are those of the run of the same
\* circuit on the same inputs in which every party has the option set; and so
\* is, on the way there, the share on every wire that is online-ready.
C14_OutputsIndependentOfSetting ==
  \A p \in BeParties :
    /\ RunReturned(p) =>
         \A g \in OutputGates(be_test) :
           wire_value[p][g] = ReferenceShare(OnlineAfterSetupEverywhere(be_test), p, g)
    /\ \A g \in DOMAIN online_ready[p] :
         online_ready[p][g] =>
           wire_value[p][g] = ReferenceShare(OnlineAfterSetupEverywhere(be_test), p, g)

\* both sums of the fan-in circuit were revealed to parties with different
\* options, the first sum wrapping around
C14_Witness ==
  /\ be_test.circuit = "fan_in"
  /\ be_test.input = <<200, 100>>
  /\ ~be_test.online_after_setup[0] /\ be_test.online_after_setup[1]
  /\ \A p \in BeParties : RunReturned(p)
  /\ wire_value[0][7] = (200 + 107) % 256 /\ wire_value[1][7] = wire_value[0][7]
  /\ wire_value[0][6] = (200 + 107 + 214) % 256


(***************************************************************************)
(* The circuit on cleartext values.                                        *)
(***************************************************************************)
RECURSIVE Cleartext(_, _)
Cleartext(t, g) ==
  LET m == BeModulus(t)
      gate == BeCircuit(t)[g]
      x == Cleartext(t, gate.parents[1])
      y == Cleartext(t, gate.parents[2])
  IN CASE gate.type = "In" -> BeInputValue(t, g)
       [] gate.type = "Dummy" -> 0
       [] gate.type = "Add" -> (x + y) % m
       [] gate.type = "Sub" -> (x + m - y) % m
       [] gate.type = "Mul" -> (x * y) % m
       [] gate.type = "Out" -> x

InputGatesNotOwnedBy(t, p) ==
  {g \in BeGates(t) : BeCircuit(t)[g].type = "In" /\ BeCircuit(t)[g].owner # p}

\* C15: the value a party passes to In() for an input it does not own has no
\* effect: whatever it passes (zero, or its own input), every output revealed
\* after Run() is the circuit's value on the owners' inputs, and the share on
\* the wire of such an input gate is the party's mask and nothing else.
C15_NonOwnerValueIgnored ==
  \A p \in BeParties :
    /\ RunReturned(p) =>
         \A g \in OutputGates(be_test) : wire_value[p][g] = Cleartext(be_test, g)
    /\ Running(p) =>
         \A g \in InputGatesNotOwnedBy(be_test, p) :
           setup_ready[p][g] => wire_value[p][g] = BeMask(be_test, g, p)

\* the diamond on 200 and 107, each party having passed its own input (200,
\* 100) for the input of the other; the mask differs from the passed value
C15_Witness ==
  /\ be_test.circuit = "diamond"
  /\ be_test.input = <<200, 100>>
  /\ be_test.dummy = "own input"
  /\ PassedToIn(be_test, 1, 1) = 100 /\ PassedToIn(be_test, 0, 2) = 200
  /\ BeMask(be_test, 1, 1) # 100 /\ BeMask(be_test, 2, 0) # 200
  /\ \A p \in BeParties : RunReturned(p) /\ wire_value[p][6] = (93 * 93) % 256


(***************************************************************************)
(* Readiness of a gate's inputs and outputs                                *)
(***************************************************************************)
Parents(g) == {Parent(g, i) : i \in 1..Len(BeCircuit(be_test)[g].parents)}

SetupEvaluated(p, g) ==
  setup_ready[p][g] \/ gate_state[p][g] \in {"SetupDone", "OnlinePending", "OnlineDone"}

OnlineEvaluated(p, g) ==
  online_ready[p][g] \/ gate_state[p][g] = "OnlineDone" \/ Sent(p, g)

\* C16: during a run, the output wire of a gate is setup-ready, or the gate is
\* past its setup evaluation, only if every input wire of the gate is
\* setup-ready; and it is online-ready, or the gate has sent its message or is
\* past its online evaluation, only if every input wire is online-ready.
C16_OutputReadyOnlyAfterInputs ==
  \A p \in BeParties : Running(p) =>
    \A g \in BeGates(be_test) : IsGate(be_test, g) =>
      /\ SetupEvaluated(p, g) => \A h \in Parents(g) : setup_ready[p][h]
      /\ OnlineEvaluated(p, g) => \A h \in Parents(g) : online_ready[p][h]

\* party 1 interleaves the phases: the product of the diamond, a gate with two
\* inputs, is online-ready while the output gate has not yet had its setup
C16_Witness ==
  /\ be_test.circuit = "diamond"
  /\ ~be_test.online_after_setup[1]
  /\ be_pc[1] = "Run"
  /\ setup_ready[1][5] /\ online_ready[1][5]
  /\ online_ready[1][3] /\ online_ready[1][4]
  /\ gate_state[1][6] = "SetupPending"


(***************************************************************************)
(* The life of a gate within one run                                       *)
(***************************************************************************)
Rank(state) ==
  CASE state = "SetupPending" -> 1
    [] state = "SetupDone" -> 2
    [] state = "OnlinePending" -> 3
    [] state = "OnlineDone" -> 4
    [] OTHER -> 0

\* how often the operations of log marked the wire ready
Marks(log, what) == Cardinality({i \in DOMAIN log : log[i].what = what})

RunUnderWay(p) == be_pc[p] \in {"built", "Run"}

GateMovesForward(p, g) ==
  /\ Rank(gate_state'[p][g]) >= Rank(gate_state[p][g])
  /\ gate_state[p][g] = "OnlineDone" => gate_state'[p][g] = "OnlineDone"
  /\ setup_ready[p][g] => setup_ready'[p][g]

EvaluatedOncePerPhase(p, g) ==
  /\ Marks(wire_log[p][g], "setup_ready") = (IF Rank(gate_state[p][g]) >= 2 THEN 1 ELSE 0)
  /\ Marks(wire_log[p][g], "online_ready") = (IF Rank(gate_state[p][g]) = 4 THEN 1 ELSE 0)

\* C17: from the call of Run() to its return, no step takes a gate to an
\* earlier state, none takes a gate out of OnlineDone, and none takes a wire's
\* setup-ready flag from true to false; and a gate's wire was marked
\* setup-ready once if the gate is past its setup and never otherwise, and
\* online-ready once if the gate is OnlineDone and never otherwise, so that
\* when Run() has returned each gate has evaluated each phase exactly once.
C17_EvaluateOnceForwardOnly ==
  /\ [][\A p \in BeParties : RunUnderWay(p) =>
          \A g \in BeGates(be_test) : GateMovesForward(p, g)]_vars
  /\ [](\A p \in BeParties : Running(p) =>
          \A g \in BeGates(be_test) : IsGate(be_test, g) => EvaluatedOncePerPhase(p, g))

\* party 0 is back from Run() with every gate OnlineDone and every wire still
\* setup-ready; party 1 was cleared after its run, which took the flags back
C17_Witness ==
  /\ be_test.circuit = "selection"
  /\ be_pc[0] = "returned" /\ be_pc[1] = "cleared"
  /\ AllOnlineDone(0)
  /\ \A g \in BeGates(be_test) : setup_ready[0][g] /\ ~setup_ready[1][g]
  /\ \A g \in BeGates(be_test) : IsGate(be_test, g) =>
       Marks(wire_log[0][g], "setup_ready") = 1 /\ Marks(wire_log[0][g], "online_ready") = 1


(***************************************************************************)
(* Writes to a wire                                                        *)
(***************************************************************************)
\* the buffers of a wire: its value and, for a BMR wire, its keys and
\* permutation bits
Buffers == {"value", "public_keys", "secret_keys", "permutation_bits"}

Phases == {"build", "setup", "online"}

Producer(t, g) == IF BeCircuit(t)[g].type = "Dummy" THEN "DummyBmrShare" ELSE g

Writes(log, buffer, phase) ==
  {i \in DOMAIN log : log[i].what = buffer /\ log[i].phase = phase}

WrittenOnlyByProducer(p, g) ==
  /\ \A i \in DOMAIN wire_log[p][g] : wire_log[p][g][i].by = Producer(be_test, g)
  /\ \A buffer \in Buffers, phase \in Phases :
       Cardinality(Writes(wire_log[p][g], buffer, phase)) <= 1

NoWriteAfterOnlineReady(p, g) ==
  Marked(wire_log[p][g], "online_ready") =>
    \A i \in DOMAIN wire_log[p][g] :
      wire_log[p][g][i].what \in Buffers => i < FirstMark(wire_log[p][g], "online_ready")

\* a step leaves an online-ready wire as it is, and changes the value of a
\* wire only as part of the evaluation of the wire's gate
WireKept(p, g) ==
  /\ online_ready[p][g] =>
       wire_value'[p][g] = wire_value[p][g] /\ wire_log'[p][g] = wire_log[p][g]
  /\ wire_value'[p][g] # wire_value[p][g] =>
       /\ gate_state[p][g] \in {"SetupPending", "OnlinePending"}
       /\ gate_state'[p][g] # gate_state[p][g]

\* C18: every write to a wire's buffers is made by the gate (or the
\* DummyBmrShare call) that produces the wire, at most once per buffer and
\* phase, and none comes after the wire was marked online-ready; no step
\* changes the value of an online-ready wire, and a step that changes a
\* wire's value is an evaluation of the wire's own gate.
C18_WireWrittenOncePerPhase ==
  /\ [](\A p \in BeParties : \A g \in DOMAIN wire_log[p] :
          WrittenOnlyByProducer(p, g) /\ NoWriteAfterOnlineReady(p, g))
  /\ [][\A p \in BeParties : \A g \in DOMAIN online_ready[p] : WireKept(p, g)]_vars

\* the selection circuit was run: the wire of DummyBmrShare got its keys and
\* permutation bits before it was marked ready, the input wire party 0 does
\* not own was written in the setup phase and the one it owns in the online
\* phase
C18_Witness ==
  /\ be_test.circuit = "selection"
  /\ be_pc[0] = "returned"
  /\ wire_log[0][3] = DummyBmrShare
  /\ Writes(wire_log[0][3], "secret_keys", "build") = {2}
  /\ FirstMark(wire_log[0][3], "online_ready") = 5
  /\ Writes(wire_log[0][2], "value", "setup") # {} /\ Writes(wire_log[0][2], "value", "online") = {}
  /\ Writes(wire_log[0][1], "value", "online") # {} /\ Writes(wire_log[0][1], "value", "setup") = {}


(***************************************************************************)
(* Waiting for a wire                                                      *)
(***************************************************************************)
AllWaitersReturned == \A w \in cond_waiters : waiter_pc[w] = "returned"

\* C19: for one thread that marks the wire setup-ready and one to three
\* threads that wait for it, in every interleaving: no waiter has returned
\* while the flag is false, and once the flag is set every waiter eventually
\* returns, whether it blocked before the flag was set or came after.
C19_NoLostWakeup ==
  /\ [](\A w \in cond_waiters : waiter_pc[w] = "returned" => setup_ready_)
  /\ (setup_ready_ ~> AllWaitersReturned)
  /\ <>(setup_ready_ /\ AllWaitersReturned)

\* every waiter has returned: w1 had blocked on the condition and was woken by
\* the notification alone, w2 came when the flag was set and never blocked
C19_Witness ==
  /\ cond_waiters = {"w1", "w2"}
  /\ setup_ready_
  /\ AllWaitersReturned
  /\ cond_blocked = {"w1"}
  /\ cond_spurious = {}
  /\ SetterAt = "done"


(***************************************************************************)
(* Delivery between two peers                                              *)
(***************************************************************************)
\* the messages of one ordered pair in a log of all pairs, in the log's order
RECURSIVE OfPair(_, _)
OfPair(log, pair) ==
  IF log = <<>> THEN <<>>
  ELSE (IF Head(log).pair = pair THEN << Head(log).message >> ELSE <<>>)
         \o OfPair(Tail(log), pair)

\* the messages written to the socket and not yet in the receive queue
InFlight(pair) == ParseStream(chan_header[pair] \o chan_stream[pair])

AllDelivered ==
  \A pair \in ChanPairs : lqueue_receive_[pair] = OfPair(chan_enqueued, pair)

\* C20: for every ordered pair of parties, at every moment, the messages in the
\* receive queue, followed by those on the socket, followed by those in the
\* send queue, are the messages handed to SendMessage for that pair, in the
\* order they were handed over: none lost, none twice, none overtaken; and
\* while the connection is up every message handed over is eventually in the
\* receive queue.
C20_PerPeerFifo ==
  /\ [](\A pair \in DOMAIN lqueue_send_ :
          /\ lqueue_receive_[pair] \o InFlight(pair) \o lqueue_send_[pair]
               = OfPair(chan_enqueued, pair)
          /\ lqueue_receive_[pair] = OfPair(chan_delivered, pair))
  /\ []<>AllDelivered

\* party 0 handed over <<1>> and then <<2, 1>> for party 1, after which party 1
\* handed over <<1>> for party 0; the last message was delivered first, the
\* two of party 0 in their order
C20_Witness ==
  /\ chan_enqueued = << [pair |-> <<0, 1>>, message |-> <<1>>],
                        [pair |-> <<0, 1>>, message |-> <<2, 1>>],
                        [pair |-> <<1, 0>>, message |-> <<1>>] >>
  /\ chan_delivered = << [pair |-> <<1, 0>>, message |-> <<1>>],
                         [pair |-> <<0, 1>>, message |-> <<1>>],
                         [pair |-> <<0, 1>>, message |-> <<2, 1>>] >>
  /\ AllDelivered


(***************************************************************************)
(* The end of a connection                                                 *)
(***************************************************************************)
ConnectionEnded(p) == term_pc[p] = "ended" \/ ~continue_communication_[p]

FinishCalled(p) == \E i \in DOMAIN finish_order : finish_order[i] = p

\* C21: both termination flags of both handlers are false at construction; at
\* every moment a handler whose connection has ended (WaitForConnectionEnd has
\* returned, the workers have stopped) has sent its termination message and
\* received the peer's; a handler has sent its termination message only after
\* its party called Finish(); and once both parties have called Finish(), in
\* whichever order, the connection ends at both.
C21_ShutdownHandshake ==
  /\ \A p \in TermParties :
       ~sent_termination_message_[p] /\ ~received_termination_message_[p]
  /\ [](\A p \in DOMAIN term_pc :
          /\ ConnectionEnded(p) =>
               sent_termination_message_[p] /\ received_termination_message_[p]
          /\ sent_termination_message_[p] => FinishCalled(p)
          /\ received_termination_message_[p] => sent_termination_message_[TermPeer(p)])
  /\ ((\A p \in TermParties : FinishCalled(p)) ~> (\A p \in TermParties : ConnectionEnded(p)))

\* party 1 called Finish() before party 0, which had a data message to send
\* first; the connection has ended at both
C21_Witness ==
  /\ finish_order = <<1, 0>>
  /\ term_data = {0}
  /\ \A p \in TermParties : term_pc[p] = "ended" /\ ~continue_communication_[p]
  /\ \A p \in TermParties : sent_termination_message_[p] /\ received_termination_message_[p]


(***************************************************************************)
(* A peer that disconnects                                                 *)
(***************************************************************************)
Disconnected(q) == be_pc[q] = "disconnected"

\* the messages q's peer waits for and q has not sent
Missing(q) == {g \in BeGates(be_test) : Communicates(be_test, g) /\ ~Sent(q, g)}

MuxCircuits == {"part_006:CreateOPCircuit", "part_000:EvaluateProtocol", "Mux"}

\* the cleartext of the selector of the test's multiplexer
SelectorOf(t) ==
  CASE t.circuit = "Mux" -> t.selector
    [] t.circuit = "part_006:CreateOPCircuit" -> 0
    [] t.circuit = "part_000:EvaluateProtocol" -> IF t.a > t.b THEN 0 ELSE 1

\* (s AND (a XOR b)) XOR b on the bits of a and b
MuxIdentity(s, a, b) ==
  FromBits([i \in 1..MaxBitLen |->
              ((s * ((ToInput(a)[i] + ToInput(b)[i]) % 2)) + ToInput(b)[i]) % 2])

\* C23: a multiplexer over the boolean shares of a and b reveals a when the
\* selector is 1 and b when it is 0, which is (s AND (a XOR b)) XOR b bit for
\* bit; with the all-zero dummy selector of the benchmark it reveals b.
C23_MuxSelects ==
  op_pc = "returned" /\ op_test.circuit \in MuxCircuits =>
    /\ op_output = << IF SelectorOf(op_test) = 1 THEN op_test.a ELSE op_test.b >>
    /\ op_output = << MuxIdentity(SelectorOf(op_test), op_test.a, op_test.b) >>
    /\ op_test.circuit = "part_006:CreateOPCircuit" => op_output = << op_test.b >>

\* three parties, selector 1: the multiplexer revealed a = 5 and not b = 2
C23_Witness ==
  /\ op_pc = "returned"
  /\ op_test.circuit = "Mux"
  /\ op_test.num_parties = 3
  /\ op_test.selector = 1 /\ op_test.a = 5 /\ op_test.b = 2
  /\ op_output = <<5>>


(***************************************************************************)
(* Greater-or-equal, less-or-equal, not-equal                              *)
(***************************************************************************)
Indicator(holds) == IF holds THEN 1 ELSE 0

\* C24: for all a and b of the same bit width, the benchmark's circuit
\* (a == b) | (a > b) and the circuit file's GE, ~(b > a), both reveal 1
\* exactly when a >= b; the circuit file's LE, ~(a > b), reveals 1 exactly when
\* a <= b, and its NE, ~(a == b), exactly when a # b.
C24_GeLeNeCorrect ==
  op_pc = "returned" =>
    /\ op_test.circuit \in {"ge/op.cpp:CreateOPCircuit", "part_003:GE"} =>
         op_output = << Indicator(op_test.a >= op_test.b) >>
    /\ op_test.circuit = "part_003:LE" => op_output = << Indicator(op_test.a <= op_test.b) >>
    /\ op_test.circuit = "part_003:NE" => op_output = << Indicator(op_test.a # op_test.b) >>

\* the circuit file's GE on 3 and 5 between three parties revealed 0
C24_Witness ==
  /\ op_pc = "returned"
  /\ op_test.circuit = "part_003:GE"
  /\ op_test.num_parties = 3
  /\ op_test.a = 3 /\ op_test.b = 5
  /\ op_output = <<0>>


(***************************************************************************)
(* C29: the parties configuration when CreateParty reaches                 *)
(* TcpSetupHelper::SetupConnections                                        *)
(***************************************************************************)
\* the --parties arguments whose id field is the party id
ArgumentsOf(id) ==
  { k \in 1..Len(user_options.parties) :
      ParsePartyArgument(user_options.parties[k]).id = id }

\* C29: whenever CreateParty reaches connection setup, every party id in
\* [0, numParties) has been assigned its (host, port) pair from exactly one
\* --parties argument; a list with a repeated id does not get there.
C29_ConfigurationCompleteAtSetup ==
  pc = "SetupConnections" =>
    \A id \in 0..(Len(user_options.parties) - 1) :
      /\ parties_configuration[id] # <<>>
      /\ Cardinality(ArgumentsOf(id)) = 1


(***************************************************************************)
(* C25 to C27: the micro-benchmark's main and EvaluateProtocol             *)
(***************************************************************************)
\* C25: the parties of one computation build the same circuit: for every
\* input gate, in creation order, every party passes the same owner id to
\* In(), so that the parties agree on the one owner of each input share.
C25_SameOwnerOnEveryParty ==
  \A p, q \in DOMAIN in_owner :
    \A k \in 1..Len(in_owner[p]) :
      k <= Len(in_owner[q]) => in_owner[p][k] = in_owner[q][k]

\* Run() has returned on party p
AfterRun(p) == bench_pc[p] \in {"Finish", "As", "EXIT_SUCCESS"}

\* C26: the outputs EvaluateProtocol reads after Run() are one entry per
\* element of party_input, each a share produced by Out(); no
\* default-constructed entry is read with As<>.
C26_OneRevealedOutputPerInput ==
  \A p \in DOMAIN bench_pc :
    /\ AfterRun(p) =>
         /\ Len(output[p]) = Len(party_input[p])
         /\ \A k \in 1..Len(output[p]) : output[p][k].share = "Out"
    /\ \A k \in 1..Len(as_read[p]) : as_read[p][k] # DefaultConstructed

\* C27: main reads party_input only at indices of [0, num-paral), for every
\* accepted value of num-paral, the default 1 included.
C27_PartyInputReadInBounds ==
  \A p \in DOMAIN bench_read :
    bench_read[p] \subseteq 0..(bench_test.num_paral - 1)


(***************************************************************************)
(* C28: configuration errors and main's exit status                        *)
(***************************************************************************)
\* what the checks of the command line throw: std::runtime_error for a
\* missing option, a wrong count, bad syntax or an id out of range,
\* boost::bad_lexical_cast for a port past 16 bits, std::invalid_argument for
\* an unknown protocol or conversion name
ConfigurationErrors == {"runtime_error", "bad_lexical_cast", "invalid_argument"}

\* C28: every configuration error raised while the options are parsed and the
\* party is created is caught by main and turned into EXIT_FAILURE; none
\* leaves main as an unhandled exception.
C28_ConfigurationErrorsCaught ==
  thrown \in ConfigurationErrors => pc # "terminate"


(***************************************************************************)
(* C30: the calls on one Party instance                                    *)
(***************************************************************************)
\* the positions of a call in the log of a Party instance
Calls(log, call) == {k \in 1..Len(log) : log[k].call = call}

OneCircuitPerParty(log) ==
  /\ Cardinality(Calls(log, "Run")) <= 1
  /\ \A b \in Building : \A j \in Calls(log, b) : \A k \in Calls(log, "Run") : j < k
  /\ \A j \in Calls(log, "Finish") : \A k \in Calls(log, "Run") : k < j
  /\ \A j \in Calls(log, "As") : \E k \in Calls(log, "Run") : k < j
  /\ \A j, k \in 1..Len(log) : log[j].round = log[k].round

\* C30: every Party instance executes at most one circuit: the building calls
\* (In, operators, Out) all precede Run(), Run() is called at most once and
\* never after Finish(), output values are read only after Run() returned, and
\* a harness of several rounds makes the calls of each round on a Party of its
\* own.
C30_OneCircuitPerParty ==
  \A i \in DOMAIN life_log : OneCircuitPerParty(life_log[i])

\* the circuit-file runner after its second round: both Party instances ran
\* their circuit and had their two outputs read
C30_Witness ==
  /\ life_test.program = "part_003"
  /\ life_round = 2
  /\ life_pc = "main"
  /\ \A i \in 0..1 :
       /\ Cardinality(Calls(life_log[i], "Run")) = 1
       /\ Cardinality(Calls(life_log[i], "As")) = 2
       /\ Cardinality(Calls(life_log[i], "Finish")) = 1

================================================================
